---- MODULE Spec2Model ----
(***************************************************************************)
(* Model of the spin engine of backend/app: the provably fair byte stream  *)
(* (random_generator.py), the grid, cluster finder, multiplier and tumble  *)
(* mechanics and run_spin / verify_spin (gamestate.py), the tables of      *)
(* game_config.py and the /verify endpoint (api/main.py).                  *)
(*                                                                         *)
(* Conventions.                                                            *)
(*  - Rows and columns are 0-based as in the code; a position is <<r, c>>. *)
(*  - Python's None is the string "None" for a symbol and a tier, and the  *)
(*    empty sequence for a list argument (both are falsy in the code).     *)
(*  - Base payouts are kept in hundredths (0.78 is 78).                    *)
(*  - Every money amount of run_spin is bet_amount times a number that     *)
(*    does not depend on the bet; the model carries that number, in units  *)
(*    of 1/10000 ("per-bet units"), zero when the bet is zero, and         *)
(*    computes in exact arithmetic.                                        *)
(*  - bet_amount is kept in tenths of a currency unit (1.0 is 10).         *)
(*  - HMAC-SHA256 is a library function: its value for a message is a      *)
(*    fixed block of 32 bytes.  The model fixes one such function, given   *)
(*    by the table Tracks, chosen so that the cases of interest occur.     *)
(***************************************************************************)
EXTENDS Integers, Sequences, FiniteSets, TLC

(***************************************************************************)
(* game_config.py                                                          *)
(***************************************************************************)
GRID_ROWS == 5
GRID_COLS == 6
MIN_CLUSTER_SIZE == 4
INITIAL_MULTIPLIER == 1
GHOST_SPOT_BASE == 2
MULTIPLIER_GROWTH == 2
MAX_MULTIPLIER == 1024
MAX_WIN_MULTIPLIER == 40000
MIN_BET == 100000
PAYTABLE_CAP == 15
SCATTER_TRIGGER_MIN == 3
SCATTER_CAP == 6

\* One per-bet unit is 1/10000; a hundredth is CentUnits of them.
CentUnits == 10 * 10
PerBetUnits == CentUnits * CentUnits

None == "None"
WILD == "WD"
SCATTER == "SC"

SYMBOLS_LIST == <<"WD", "SC", "WR", "WB", "WP", "WG", "W6", "WS", "HC", "HS", "HW", "HK">>

Symbol == {SYMBOLS_LIST[i] : i \in 1..Len(SYMBOLS_LIST)}

SYMBOL_WEIGHTS ==
    [s \in Symbol |->
        CASE s = "WD" -> 3  [] s = "SC" -> 2
          [] s = "WR" -> 8  [] s = "WB" -> 10 [] s = "WP" -> 12
          [] s = "WG" -> 16 [] s = "W6" -> 19 [] s = "WS" -> 22
          [] s = "HC" -> 26 [] s = "HS" -> 29 [] s = "HW" -> 33 [] s = "HK" -> 36]

FREE_SPIN_WEIGHTS ==
    [s \in Symbol |->
        CASE s = "WD" -> 5  [] s = "SC" -> 3
          [] s = "WR" -> 8  [] s = "WB" -> 10 [] s = "WP" -> 12
          [] s = "WG" -> 16 [] s = "W6" -> 19 [] s = "WS" -> 22
          [] s = "HC" -> 26 [] s = "HS" -> 29 [] s = "HW" -> 33 [] s = "HK" -> 36]

RECURSIVE SumSeq(_)
SumSeq(ws) == IF ws = <<>> THEN 0 ELSE ws[1] + SumSeq(Tail(ws))

\* The running sums of a weight list (the loops at game_config.py:118-122, 146-150
\* and random_generator.py:233-237).
Cumulative(ws) == [i \in 1..Len(ws) |-> SumSeq(SubSeq(ws, 1, i))]

WEIGHTS_LIST == [i \in 1..Len(SYMBOLS_LIST) |-> SYMBOL_WEIGHTS[SYMBOLS_LIST[i]]]
TOTAL_WEIGHT == SumSeq(WEIGHTS_LIST)
CUMULATIVE_WEIGHTS == Cumulative(WEIGHTS_LIST)

FREE_SPIN_SYMBOLS_LIST == SYMBOLS_LIST
FREE_SPIN_WEIGHTS_LIST == [i \in 1..Len(SYMBOLS_LIST) |-> FREE_SPIN_WEIGHTS[SYMBOLS_LIST[i]]]
FREE_SPIN_TOTAL_WEIGHT == SumSeq(FREE_SPIN_WEIGHTS_LIST)
FREE_SPIN_CUMULATIVE == Cumulative(FREE_SPIN_WEIGHTS_LIST)

\* Base payouts in hundredths, for the cluster sizes 4..15.
PAYTABLE ==
    [s \in Symbol |->
        CASE s \in {"WD", "WR"} -> <<78, 125, 204, 329, 549, 815, 1254, 2038, 3293, 5018, 8154, 12544>>
          [] s = "WB" -> <<63, 102, 165, 282, 470, 721, 1098, 1803, 2822, 4390, 7213, 10976>>
          [] s = "WP" -> <<50, 84, 141, 251, 416, 666, 1004, 1646, 2634, 4140, 6664, 10035>>
          [] s = "WG" -> <<34, 58, 94, 165, 267, 423, 666, 1145, 1725, 2822, 4704, 7213>>
          [] s = "W6" -> <<31, 52, 84, 141, 235, 376, 580, 1004, 1505, 2509, 4140, 6272>>
          [] s = "WS" -> <<25, 42, 73, 120, 201, 321, 502, 847, 1333, 2148, 3450, 5331>>
          [] s = "HC" -> <<13, 19, 34, 57, 94, 157, 235, 384, 612, 1004, 1631, 2509>>
          [] s = "HS" -> <<10, 16, 26, 47, 78, 125, 191, 329, 517, 847, 1348, 2038>>
          [] s \in {"HW", "HK"} -> <<8, 13, 21, 31, 57, 91, 138, 235, 392, 627, 1004, 1505>>
          [] s = "SC" -> <<0, 0, 0, 0, 0, 0, 0, 0, 0, 0, 0, 0>>]

Min(a, b) == IF a < b THEN a ELSE b
Max(a, b) == IF a > b THEN a ELSE b

\* A get_payout that collapses the sizes from one below the cap on.
get_payout_below_cap(symbol, cluster_size) ==
    IF cluster_size < MIN_CLUSTER_SIZE
    THEN 0
    ELSE PAYTABLE[symbol][Min(cluster_size, PAYTABLE_CAP - 1) - MIN_CLUSTER_SIZE + 1]

get_payout(symbol, cluster_size) ==
    IF cluster_size < MIN_CLUSTER_SIZE
    THEN 0
    ELSE LET lookup_size == Min(cluster_size, PAYTABLE_CAP)
         IN  \* SCATTER has no entries for 13 and 14: .get(lookup_size, 0.0)
             PAYTABLE[symbol][lookup_size - MIN_CLUSTER_SIZE + 1]

SCATTER_FREE_SPINS == [n \in 3..6 |-> CASE n = 3 -> 8 [] n = 4 -> 12 [] n = 5 -> 15 [] n = 6 -> 20]
SCATTER_RETRIGGER == [n \in 3..6 |-> CASE n = 3 -> 5 [] n = 4 -> 8 [] n = 5 -> 10 [] n = 6 -> 12]

(***************************************************************************)
(* random_generator.py                                                     *)
(***************************************************************************)
HASH_BYTES == 32
BYTE_RANGE == 256
FLOAT_BYTES == 4

Tracks == <<
    \* no cluster anywhere; the eight bytes after the grid are two jackpot rolls below every chance
    [intro |-> <<170, 140, 112, 88, 68, 170, 140, 112, 88, 68, 170, 140, 112, 88, 68, 170, 140, 112, 88, 68, 170, 140, 112, 88, 68, 170, 140, 112, 88, 68, 0, 0, 0, 1, 0, 0, 0, 1>>,
     loop |-> <<170, 140, 112, 88, 68>>],
    \* four HK in the bottom row, a quiet refill, a jackpot roll above every chance and one below
    [intro |-> <<170, 140, 112, 88, 68, 170, 140, 112, 88, 68, 170, 140, 112, 88, 68, 170, 140, 112, 88, 68, 170, 140, 112, 88, 200, 200, 200, 200, 88, 68, 170, 140, 112, 88, 200, 0, 0, 0, 0, 0, 0, 1>>,
     loop |-> <<170, 140, 112, 88, 68>>],
    \* a wild in the top-left corner inside an HK cluster; the wheel bytes follow the grid
    [intro |-> <<0, 200, 200, 88, 68, 170, 140, 200, 88, 68, 170, 140, 112, 88, 68, 170, 140, 112, 88, 68, 170, 140, 112, 88, 68, 170, 140, 112, 88, 68, 128, 0, 0, 0>>,
     loop |-> <<170, 140, 112, 88, 68>>],
    \* two scatters and an HK cluster on the initial grid; the refill brings a third scatter
    [intro |-> <<170, 140, 112, 88, 68, 3, 140, 112, 88, 68, 170, 140, 112, 88, 68, 170, 140, 3, 88, 68, 170, 140, 112, 88, 200, 200, 200, 200, 88, 68, 3>>,
     loop |-> <<170, 140, 112, 88, 68>>],
    \* two scatters and an HK cluster on the initial grid; no scatter follows
    [intro |-> <<170, 140, 112, 88, 68, 3, 140, 112, 88, 68, 170, 140, 112, 88, 68, 170, 140, 3, 88, 68, 170, 140, 112, 88, 200, 200, 200, 200, 88, 68>>,
     loop |-> <<170, 140, 112, 88, 68>>],
    \* three scatters and an HK cluster on the initial grid
    [intro |-> <<170, 140, 112, 88, 68, 3, 140, 112, 88, 68, 170, 140, 112, 88, 68, 170, 140, 3, 88, 68, 170, 140, 112, 88, 200, 200, 200, 200, 88, 3>>,
     loop |-> <<170, 140, 112, 88, 68>>],
    \* seven scatters on the initial grid
    [intro |-> <<3, 140, 3, 88, 3, 170, 140, 112, 88, 68, 170, 140, 112, 3, 68, 3, 140, 3, 88, 68, 170, 140, 112, 88, 3, 170, 140, 112, 88, 68>>,
     loop |-> <<170, 140, 112, 88, 68>>],
    \* four HK in the top row that every refill forms again
    [intro |-> <<200, 200, 200, 200, 68, 170, 140, 112, 88, 68, 170, 140, 112, 88, 68, 170, 140, 112, 88, 68, 170, 140, 112, 88, 68, 170, 140, 112, 88, 68>>,
     loop |-> <<200>>],
    \* three grids of HK one after the other, then a quiet refill
    [intro |-> <<200, 200, 200, 200, 200, 200, 200, 200, 200, 200, 200, 200, 200, 200, 200, 200, 200, 200, 200, 200, 200, 200, 200, 200, 200, 200, 200, 200, 200, 200, 200, 200, 200, 200, 200, 200, 200, 200, 200, 200, 200, 200, 200, 200, 200, 200, 200, 200, 200, 200, 200, 200, 200, 200, 200, 200, 200, 200, 200, 200, 200, 200, 200, 200, 200, 200, 200, 200, 200, 200, 200, 200, 200, 200, 200, 200, 200, 200, 200, 200, 200, 200, 200, 200, 200, 200, 200, 200, 200, 200>>,
     loop |-> <<170, 140, 112, 88, 68>>],
    \* four scatters under the free-spin table and an HK cluster
    [intro |-> <<170, 140, 112, 88, 68, 5, 5, 112, 88, 68, 170, 140, 112, 88, 68, 170, 140, 5, 88, 68, 170, 140, 112, 88, 200, 200, 200, 200, 88, 5>>,
     loop |-> <<170, 140, 112, 88, 68>>],
    \* rejected bytes between the symbols; the refill of an HK cluster forms a second one
    [intro |-> <<240, 170, 140, 112, 88, 68, 170, 140, 240, 112, 88, 68, 170, 140, 112, 88, 240, 68, 170, 140, 112, 88, 68, 170, 240, 140, 112, 88, 200, 200, 200, 200, 240, 88, 68, 200, 200, 200, 200, 240>>,
     loop |-> <<170, 140, 112, 88, 68>>],
    \* a wild between an HK cluster and an HW cluster; the wheel bytes follow the grid
    [intro |-> <<170, 140, 112, 88, 68, 170, 140, 200, 88, 68, 170, 140, 200, 200, 0, 68, 68, 112, 88, 68, 112, 140, 112, 88, 68, 170, 140, 112, 88, 68, 255, 255, 255, 255>>,
     loop |-> <<170, 140, 112, 88, 68>>],
    \* one scatter on the initial grid; the byte after the grid is a scatter under the free-spin table
    [intro |-> <<170, 140, 112, 88, 68, 170, 140, 112, 3, 68, 170, 140, 112, 88, 68, 170, 140, 112, 88, 68, 170, 140, 112, 88, 68, 170, 140, 112, 88, 68, 5>>,
     loop |-> <<170, 140, 112, 88, 68>>]
>>

NumTracks == Len(Tracks)

\* The block HMAC-SHA256 returns depends on the key (server_seed) and on the
\* message "client_seed:nonce:index"; here through the track the triple selects.
TrackOf(server_seed, client_seed, nonce) ==
    (((server_seed - 1) * 6 + (client_seed - 1) * 3 + nonce) % NumTracks) + 1

track_byte(track, p) ==
    IF p < Len(track.intro)
    THEN track.intro[p + 1]
    ELSE track.loop[((p - Len(track.intro)) % Len(track.loop)) + 1]

TrackByte(t, p) == track_byte(Tracks[t], p)

\* _generate_hash: block "index" of the stream of the seeds.
generate_hash(server_seed, client_seed, nonce, index) ==
    [j \in 1..HASH_BYTES |->
        TrackByte(TrackOf(server_seed, client_seed, nonce), HASH_BYTES * index + (j - 1))]

\* ProvablyFairRNG.__init__: a fresh generator starts at byte 0 of block 0.
create_rng(server_seed, client_seed, nonce) ==
    [server_seed |-> server_seed, client_seed |-> client_seed, nonce |-> nonce,
     master_hash |-> generate_hash(server_seed, client_seed, nonce, 0),
     byte_index |-> 0, hash_index |-> 0]

\* _get_next_bytes, "if self._byte_index >= len(self._master_hash)": the next block.
next_block(g) ==
    IF g.byte_index >= HASH_BYTES
    THEN [g EXCEPT !.hash_index = @ + 1,
                   !.master_hash = generate_hash(g.server_seed, g.client_seed, g.nonce,
                                                 g.hash_index + 1),
                   !.byte_index = 0]
    ELSE g

\* _get_next_bytes, the "while len(result) < count" loop; take_bytes is the rest of one pass.
RECURSIVE next_bytes_loop(_, _, _)
RECURSIVE take_bytes(_, _, _)
take_bytes(g, result, count) ==
    LET available == HASH_BYTES - g.byte_index
        take == Min(available, count - Len(result))
    IN  next_bytes_loop([g EXCEPT !.byte_index = @ + take],
                        result \o SubSeq(g.master_hash, g.byte_index + 1, g.byte_index + take),
                        count)

next_bytes_loop(g, result, count) ==
    IF Len(result) >= count
    THEN [bytes |-> result, rng |-> g]
    ELSE take_bytes(next_block(g), result, count)

get_next_bytes(g, count) == next_bytes_loop(g, <<>>, count)

RECURSIVE bit_length(_)
bit_length(n) == IF n <= 0 THEN 0 ELSE 1 + bit_length(n \div 2)

RECURSIVE from_bytes(_)
from_bytes(bs) ==
    IF bs = <<>> THEN 0 ELSE from_bytes(SubSeq(bs, 1, Len(bs) - 1)) * BYTE_RANGE + bs[Len(bs)]

\* random_int: rejection sampling.  accept_or_retry is the body of the "while True" loop
\* after the bytes nb were read.
RECURSIVE random_int(_, _)
RECURSIVE accept_or_retry(_, _, _)
accept_or_retry(nb, bits_needed, max_value) ==
    LET value == from_bytes(nb.bytes) % (2 ^ bits_needed)
    IN  IF value < max_value
        THEN [value |-> value, rng |-> nb.rng]
        ELSE random_int(nb.rng, max_value)

read_and_accept(g, bits_needed, max_value) ==
    accept_or_retry(get_next_bytes(g, (bits_needed + 7) \div 8), bits_needed, max_value)

random_int(g, max_value) ==
    IF max_value <= 0
    THEN [value |-> 0, rng |-> g]
    ELSE read_and_accept(g, bit_length(max_value), max_value)

\* random_float: the 32-bit draw is kept as its two 16-bit halves; the float is
\* (hi * 65536 + lo) / 2^32.
float_of(nb) ==
    [hi |-> from_bytes(SubSeq(nb.bytes, 1, 2)), lo |-> from_bytes(SubSeq(nb.bytes, 3, 4)),
     rng |-> nb.rng]

random_float(g) == float_of(get_next_bytes(g, FLOAT_BYTES))

RECURSIVE first_below(_, _, _)
first_below(cumulative_weights, target, i) ==
    IF i > Len(cumulative_weights) THEN Len(cumulative_weights) - 1
    ELSE IF target < cumulative_weights[i] THEN i - 1
    ELSE first_below(cumulative_weights, target, i + 1)

\* weighted_choice returns the 0-based index, as the code does; t is the random_int drawn.
choice_of(cumulative_weights, t) ==
    [index |-> first_below(cumulative_weights, t.value, 1), rng |-> t.rng]

weighted_choice(g, cumulative_weights, total_weight) ==
    choice_of(cumulative_weights, random_int(g, total_weight))

\* get_symbol, random_generator.py:213-237: the boosted weights, built on each call.
boosted_weights(scatter_boost, wild_boost) ==
    [i \in 1..Len(SYMBOLS_LIST) |->
        LET symbol == SYMBOLS_LIST[i]
            w0 == SYMBOL_WEIGHTS[symbol]
            w1 == IF scatter_boost /\ symbol = SCATTER THEN w0 * 3 ELSE w0
        IN  IF wild_boost /\ symbol = WILD THEN w1 * 5 ELSE w1]

boosted_choice(g, weights) == weighted_choice(g, Cumulative(weights), SumSeq(weights))

\* "return SYMBOLS_LIST[index]" for the index w drawn.
symbol_at(symbols_list, w) == [symbol |-> symbols_list[w.index + 1], rng |-> w.rng]

get_symbol(g, free_spin_mode, scatter_boost, wild_boost) ==
    IF free_spin_mode
    THEN symbol_at(FREE_SPIN_SYMBOLS_LIST,
                   weighted_choice(g, FREE_SPIN_CUMULATIVE, FREE_SPIN_TOTAL_WEIGHT))
    ELSE IF scatter_boost \/ wild_boost
    THEN symbol_at(SYMBOLS_LIST, boosted_choice(g, boosted_weights(scatter_boost, wild_boost)))
    ELSE symbol_at(SYMBOLS_LIST, weighted_choice(g, CUMULATIVE_WEIGHTS, TOTAL_WEIGHT))

\* n successive get_symbol calls: the drawn symbols in order, and the generator after;
\* draw_next continues after the draw d.
RECURSIVE draw_symbols(_, _, _, _, _, _)
RECURSIVE draw_next(_, _, _, _, _, _)
draw_next(d, n, acc, free_spin_mode, scatter_boost, wild_boost) ==
    draw_symbols(d.rng, n - 1, Append(acc, d.symbol), free_spin_mode, scatter_boost, wild_boost)

draw_symbols(g, n, acc, free_spin_mode, scatter_boost, wild_boost) ==
    IF n = 0
    THEN [symbols |-> acc, rng |-> g]
    ELSE draw_next(get_symbol(g, free_spin_mode, scatter_boost, wild_boost), n, acc,
                   free_spin_mode, scatter_boost, wild_boost)

Rows == 0..(GRID_ROWS - 1)
Cols == 0..(GRID_COLS - 1)
Cells == Rows \X Cols

\* Row-major order, the order of "for row ... for col ...".
CellIndex(pos) == pos[1] * GRID_COLS + pos[2] + 1
CellAt(k) == <<(k - 1) \div GRID_COLS, (k - 1) % GRID_COLS>>
AllPositions == [k \in 1..(GRID_ROWS * GRID_COLS) |-> CellAt(k)]

\* generate_grid: GRID_ROWS * GRID_COLS draws, laid out row by row.
grid_of(d) == [grid |-> [pos \in Cells |-> d.symbols[CellIndex(pos)]], rng |-> d.rng]

generate_grid(g, free_spin_mode, scatter_boost, wild_boost) ==
    grid_of(draw_symbols(g, GRID_ROWS * GRID_COLS, <<>>,
                         free_spin_mode, scatter_boost, wild_boost))

(***************************************************************************)
(* gamestate.py: GridState                                                 *)
(***************************************************************************)
InBounds(r, c) == 0 <= r /\ r < GRID_ROWS /\ 0 <= c /\ c < GRID_COLS

\* GridState.__init__: the symbols of initial_grid, every multiplier at 1.
GridState(initial_grid) ==
    [symbols |-> initial_grid, multipliers |-> [pos \in Cells |-> INITIAL_MULTIPLIER]]

get_symbol_grid(symbols) ==
    [r \in 1..GRID_ROWS |-> [c \in 1..GRID_COLS |->
        IF symbols[<<r - 1, c - 1>>] = None THEN "" ELSE symbols[<<r - 1, c - 1>>]]]

symbols_match(symbol1, symbol2) ==
    IF symbol1 = None \/ symbol2 = None THEN FALSE
    ELSE IF symbol1 = symbol2 THEN TRUE
    ELSE IF symbol1 = SCATTER \/ symbol2 = SCATTER THEN FALSE
    ELSE IF symbol1 = WILD \/ symbol2 = WILD THEN TRUE
    ELSE FALSE

\* The symbol of the cell a cluster started from.
seed_symbol(symbols, positions) == symbols[Head(positions)]

RECURSIVE get_cluster_symbol(_, _)
get_cluster_symbol(symbols, positions) ==
    IF positions = <<>> THEN WILD
    ELSE IF symbols[Head(positions)] # None /\ symbols[Head(positions)] # WILD
    THEN symbols[Head(positions)]
    ELSE get_cluster_symbol(symbols, Tail(positions))

\* The four directions and the four diagonals.
directions_with_diagonals ==
    << <<-1, 0>>, <<1, 0>>, <<0, -1>>, <<0, 1>>, <<-1, -1>>, <<-1, 1>>, <<1, -1>>, <<1, 1>> >>

\* 4-directional movement
directions4 == << <<-1, 0>>, <<1, 0>>, <<0, -1>>, <<0, 1>> >>

\* The "for dr, dc in directions" loop of _bfs_cluster, from direction i on.
RECURSIVE bfs_neighbours(_, _, _, _, _, _)
bfs_neighbours(symbols, pos, actual_target, local_visited, queue, i) ==
    IF i > Len(directions4)
    THEN [local_visited |-> local_visited, queue |-> queue]
    ELSE LET new_row == pos[1] + directions4[i][1]
             new_col == pos[2] + directions4[i][2]
             new_pos == <<new_row, new_col>>
         IN  IF ~InBounds(new_row, new_col)
             THEN bfs_neighbours(symbols, pos, actual_target, local_visited, queue, i + 1)
             ELSE IF new_pos \in local_visited
             THEN bfs_neighbours(symbols, pos, actual_target, local_visited, queue, i + 1)
             ELSE IF symbols_match(symbols[new_pos], actual_target)
             THEN bfs_neighbours(symbols, pos, actual_target, local_visited \cup {new_pos},
                                 Append(queue, new_pos), i + 1)
             ELSE bfs_neighbours(symbols, pos, actual_target, local_visited, queue, i + 1)

\* The "while queue" loop of _bfs_cluster.
RECURSIVE bfs_loop(_, _, _, _, _, _)
bfs_loop(symbols, queue, local_visited, cluster_positions, actual_target, global_visited) ==
    IF queue = <<>>
    THEN [positions |-> cluster_positions, visited |-> global_visited]
    ELSE LET pos == Head(queue)
             cell_symbol == symbols[pos]
         IN  IF symbols_match(cell_symbol, actual_target)
             THEN LET target1 == IF actual_target = WILD /\ cell_symbol # WILD
                                 THEN cell_symbol ELSE actual_target
                      nb == bfs_neighbours(symbols, pos, target1, local_visited, Tail(queue), 1)
                  IN  bfs_loop(symbols, nb.queue, nb.local_visited,
                               Append(cluster_positions, pos), target1, global_visited \cup {pos})
             ELSE bfs_loop(symbols, Tail(queue), local_visited, cluster_positions,
                           actual_target, global_visited)

bfs_cluster(symbols, start, target_symbol, global_visited) ==
    bfs_loop(symbols, <<start>>, {start}, <<>>, target_symbol, global_visited)

RECURSIVE max_mult(_, _)
max_mult(multipliers, positions) ==
    IF Len(positions) = 1 THEN multipliers[positions[1]]
    ELSE Max(multipliers[Head(positions)], max_mult(multipliers, Tail(positions)))

create_cluster(gs, cluster_id, symbol, positions) ==
    LET size == Len(positions)
        base_payout == get_payout(symbol, size)
        m == max_mult(gs.multipliers, positions)
    IN  [cluster_id |-> cluster_id, symbol |-> symbol, positions |-> positions, size |-> size,
         base_payout |-> base_payout, multiplier |-> m, total_payout |-> base_payout * m]

\* A finder that takes a group only above the minimum size.
is_winning_above_minimum(cluster_positions) == Len(cluster_positions) > MIN_CLUSTER_SIZE

\* A finder that takes three cells for a win.
is_winning_at_three(cluster_positions) == Len(cluster_positions) >= MIN_CLUSTER_SIZE - 1

\* gamestate.py:230
is_winning(cluster_positions) == Len(cluster_positions) >= MIN_CLUSTER_SIZE

\* The two "for" loops of find_all_clusters, from cell k (row-major) on.
RECURSIVE scan_clusters(_, _, _, _)
scan_clusters(gs, k, visited, clusters) ==
    IF k > GRID_ROWS * GRID_COLS THEN clusters
    ELSE LET pos == CellAt(k)
             symbol == gs.symbols[pos]
         IN  IF pos \in visited THEN scan_clusters(gs, k + 1, visited, clusters)
             ELSE IF symbol = None THEN scan_clusters(gs, k + 1, visited, clusters)
             ELSE IF symbol = SCATTER THEN scan_clusters(gs, k + 1, visited \cup {pos}, clusters)
             ELSE LET b == bfs_cluster(gs.symbols, pos, symbol, visited)
                  IN  IF is_winning(b.positions)
                      THEN scan_clusters(gs, k + 1, b.visited,
                               Append(clusters,
                                      create_cluster(gs, Len(clusters),
                                                     get_cluster_symbol(gs.symbols, b.positions),
                                                     b.positions)))
                      ELSE scan_clusters(gs, k + 1, b.visited, clusters)

find_all_clusters(gs) == scan_clusters(gs, 1, {}, <<>>)

\* The scatter positions in row-major order; the count is the length.
count_scatters(symbols) ==
    SelectSeq(AllPositions, LAMBDA pos : symbols[pos] = SCATTER)

\* gamestate.py:366-371
upgraded_value(current) ==
    IF current = INITIAL_MULTIPLIER
    THEN GHOST_SPOT_BASE
    ELSE Min(current * MULTIPLIER_GROWTH, MAX_MULTIPLIER)

RECURSIVE upgrade_loop(_, _, _)
upgrade_loop(multipliers, positions, upgrades) ==
    IF positions = <<>>
    THEN [multipliers |-> multipliers, upgrades |-> upgrades]
    ELSE LET pos == Head(positions)
             current == multipliers[pos]
             new_mult == upgraded_value(current)
         IN  IF new_mult # current
             THEN upgrade_loop([multipliers EXCEPT ![pos] = new_mult], Tail(positions),
                               Append(upgrades, [position |-> pos, value |-> new_mult]))
             ELSE upgrade_loop(multipliers, Tail(positions), upgrades)

upgrade_multipliers(multipliers, positions) == upgrade_loop(multipliers, positions, <<>>)

RECURSIVE remove_loop(_, _, _)
remove_loop(symbols, positions, wild_positions) ==
    IF positions = <<>>
    THEN [symbols |-> symbols, wild_positions |-> wild_positions]
    ELSE LET pos == Head(positions)
         IN  remove_loop([symbols EXCEPT ![pos] = None], Tail(positions),
                         IF symbols[pos] = WILD THEN Append(wild_positions, pos)
                         ELSE wild_positions)

remove_symbols(symbols, positions) == remove_loop(symbols, positions, <<>>)

\* WHEEL_OPTIONS (gamestate.py:414-423): (multiplier, weight); the weights are kept
\* in tenths, so that 3.5 is 35 and TOTAL_WEIGHT (100.0) is 1000.
WHEEL_OPTIONS == << <<2, 350>>, <<4, 250>>, <<8, 180>>, <<16, 100>>,
                    <<32, 60>>, <<64, 35>>, <<128, 15>>, <<256, 10>> >>
WHEEL_TOTAL_WEIGHT == SumSeq([i \in 1..Len(WHEEL_OPTIONS) |-> WHEEL_OPTIONS[i][2]])

HalfRange == BYTE_RANGE * BYTE_RANGE

\* roll * total <= cum for the float roll = (hi * 65536 + lo) / 2^32, in exact
\* arithmetic and without leaving 32 bits:
\*   (hi * 2^16 + lo) * total <= cum * 2^32  iff  hi * total + ceil(lo * total / 2^16) <= cum * 2^16
roll_at_most(roll, total, cum) ==
    roll.hi * total + ((roll.lo * total + HalfRange - 1) \div HalfRange) <= cum * HalfRange

\* The "for mult, weight in WHEEL_OPTIONS" loop: wheel_roll -= weight until wheel_roll <= 0.
RECURSIVE wheel_pick(_, _, _)
wheel_pick(roll, i, cum) ==
    IF i > Len(WHEEL_OPTIONS) THEN WHEEL_OPTIONS[1][1]
    ELSE IF roll_at_most(roll, WHEEL_TOTAL_WEIGHT, cum + WHEEL_OPTIONS[i][2])
    THEN WHEEL_OPTIONS[i][1]
    ELSE wheel_pick(roll, i + 1, cum + WHEEL_OPTIONS[i][2])

\* 8-directional: cardinal + diagonals
directions8 == << <<-1, 0>>, <<1, 0>>, <<0, -1>>, <<0, 1>>,
                  <<-1, -1>>, <<-1, 1>>, <<1, -1>>, <<1, 1>> >>

\* A wheel whose value multiplies the multiplier of the cell.
multiplied_value(old_mult, wheel_multiplier) == old_mult * wheel_multiplier

\* gamestate.py:450 and 465
exploded_value(old_mult, wheel_multiplier) == Max(old_mult, wheel_multiplier)

\* A wheel that goes on across the border of the grid to the opposite side.
explosion_cells_wrapped(wild_pos) ==
    <<wild_pos>> \o
    [i \in 1..Len(directions8) |->
        <<(wild_pos[1] + directions8[i][1]) % GRID_ROWS, (wild_pos[2] + directions8[i][2]) % GRID_COLS>>]

\* The wild's own cell, then those of its 8 neighbours that are inside the grid.
explosion_cells(wild_pos) ==
    <<wild_pos>> \o
    SelectSeq([i \in 1..Len(directions8) |->
                  <<wild_pos[1] + directions8[i][1], wild_pos[2] + directions8[i][2]>>],
              LAMBDA p : InBounds(p[1], p[2]))

RECURSIVE explode_cells(_, _, _, _)
explode_cells(multipliers, cells, wheel_multiplier, cell_details) ==
    IF cells = <<>>
    THEN [multipliers |-> multipliers, cell_details |-> cell_details]
    ELSE LET pos == Head(cells)
             old_mult == multipliers[pos]
             new_mult == exploded_value(old_mult, wheel_multiplier)
         IN  explode_cells([multipliers EXCEPT ![pos] = new_mult], Tail(cells), wheel_multiplier,
                           Append(cell_details, [position |-> pos, oldMultiplier |-> old_mult,
                                                 newMultiplier |-> new_mult]))

RECURSIVE max_new(_)
max_new(cell_details) ==
    IF Len(cell_details) = 1 THEN cell_details[1].newMultiplier
    ELSE Max(cell_details[1].newMultiplier, max_new(Tail(cell_details)))

RECURSIVE explosions_loop(_, _, _, _)
explosions_loop(multipliers, wild_positions, g, explosions) ==
    IF wild_positions = <<>>
    THEN [multipliers |-> multipliers, explosions |-> explosions, rng |-> g]
    ELSE LET wild_pos == Head(wild_positions)
             roll == random_float(g)
             wheel_multiplier == wheel_pick(roll, 1, 0)
             cells == explosion_cells(wild_pos)
             x == explode_cells(multipliers, cells, wheel_multiplier, <<>>)
         IN  explosions_loop(x.multipliers, Tail(wild_positions), roll.rng,
                 Append(explosions,
                        [wildPosition |-> wild_pos, affectedCells |-> cells,
                         cellDetails |-> x.cell_details, wheelMultiplier |-> wheel_multiplier,
                         maxNewMultiplier |-> max_new(x.cell_details)]))

apply_wild_explosions(multipliers, wild_positions, g) ==
    explosions_loop(multipliers, wild_positions, g, <<>>)

\* "while empty_row >= 0 and symbols[empty_row][col] is not None: empty_row -= 1"
RECURSIVE next_empty_row(_, _, _)
next_empty_row(symbols, row, col) ==
    IF row >= 0 /\ symbols[<<row, col>>] # None
    THEN next_empty_row(symbols, row - 1, col) ELSE row

\* The topmost symbol of the column at or above a row, or -1.
top_symbol_row(symbols, row, col) ==
    IF \E r \in 0..row : symbols[<<r, col>>] # None
    THEN CHOOSE r \in 0..row : /\ symbols[<<r, col>>] # None
                               /\ \A q \in 0..(r - 1) : symbols[<<q, col>>] = None
    ELSE -1

\* "while symbol_row >= 0 and symbols[symbol_row][col] is None: symbol_row -= 1"
RECURSIVE next_symbol_row(_, _, _)
next_symbol_row(symbols, row, col) ==
    IF row >= 0 /\ symbols[<<row, col>>] = None
    THEN next_symbol_row(symbols, row - 1, col) ELSE row

\* The "while empty_row >= 0" loop of apply_gravity for one column.
RECURSIVE gravity_column(_, _, _, _)
gravity_column(symbols, movements, col, start_row) ==
    LET done == [symbols |-> symbols, movements |-> movements]
        empty_row == next_empty_row(symbols, start_row, col)
        symbol_row == next_symbol_row(symbols, empty_row - 1, col)
    IN  IF start_row < 0 THEN done
        ELSE IF empty_row < 0 THEN done
        ELSE IF symbol_row < 0 THEN done
        ELSE gravity_column(
                 [symbols EXCEPT ![<<empty_row, col>>] = symbols[<<symbol_row, col>>],
                                 ![<<symbol_row, col>>] = None],
                 Append(movements, [from |-> <<symbol_row, col>>, to |-> <<empty_row, col>>,
                                    symbol |-> symbols[<<symbol_row, col>>]]),
                 col, empty_row - 1)

RECURSIVE gravity_columns(_, _, _)
gravity_columns(symbols, movements, col) ==
    IF col >= GRID_COLS THEN [symbols |-> symbols, movements |-> movements]
    ELSE LET g == gravity_column(symbols, movements, col, GRID_ROWS - 1)
         IN  gravity_columns(g.symbols, g.movements, col + 1)

apply_gravity(symbols) == gravity_columns(symbols, <<>>, 0)

\* A scan that skips the top row.
empty_positions_below_top(symbols) ==
    SelectSeq(AllPositions, LAMBDA pos : symbols[pos] = None /\ pos[1] > 0)

get_empty_positions(symbols) == SelectSeq(AllPositions, LAMBDA pos : symbols[pos] = None)

RECURSIVE fill_loop(_, _, _, _, _, _, _)
RECURSIVE fill_next(_, _, _, _, _, _, _)
\* The body of the loop for the symbol d drawn for the first of the positions.
fill_next(d, symbols, positions, fills, free_spin_mode, scatter_boost, wild_boost) ==
    fill_loop([symbols EXCEPT ![Head(positions)] = d.symbol], d.rng, Tail(positions),
              Append(fills, [position |-> Head(positions), symbol |-> d.symbol]),
              free_spin_mode, scatter_boost, wild_boost)

fill_loop(symbols, g, positions, fills, free_spin_mode, scatter_boost, wild_boost) ==
    IF positions = <<>>
    THEN [symbols |-> symbols, fills |-> fills, rng |-> g]
    ELSE fill_next(get_symbol(g, free_spin_mode, scatter_boost, wild_boost), symbols, positions,
                   fills, free_spin_mode, scatter_boost, wild_boost)

fill_symbols(symbols, g, positions, free_spin_mode, scatter_boost, wild_boost) ==
    fill_loop(symbols, g, positions, <<>>, free_spin_mode, scatter_boost, wild_boost)

(***************************************************************************)
(* gamestate.py: check_jackpot                                             *)
(***************************************************************************)
\* JACKPOT_TIERS (game_config.py:372-401); trigger_chance in parts of 10^8.
JACKPOT_ORDER == <<"grand", "major", "minor", "mini">>
JACKPOT_TIERS ==
    [tier_id \in {"mini", "minor", "major", "grand"} |->
        CASE tier_id = "mini"  -> [seed_amount |-> 50, trigger_chance |-> 1000, min_bet_multiplier |-> 1]
          [] tier_id = "minor" -> [seed_amount |-> 200, trigger_chance |-> 200, min_bet_multiplier |-> 2]
          [] tier_id = "major" -> [seed_amount |-> 1000, trigger_chance |-> 50, min_bet_multiplier |-> 5]
          [] tier_id = "grand" -> [seed_amount |-> 10000, trigger_chance |-> 5, min_bet_multiplier |-> 10]]

\* roll < chance / 10^8 for the float roll = (hi * 65536 + lo) / 2^32, exactly:
\* 10^8 = 2^8 * 390625 and 2^24 = 42 * 390625 + 370966, so with hi = 0 the test
\* lo * 390625 < chance * 2^24 is lo < 42 * chance + ceil(chance * 370966 / 390625);
\* with hi > 0 the roll is at least 2^-16, above every chance below 1525.
roll_below_chance(roll, chance) ==
    /\ roll.hi = 0
    /\ roll.lo < 42 * chance + ((chance * 370966 + 390624) \div 390625)

\* A check_jackpot that rolls for every tier before it looks at the bet.
RECURSIVE jackpot_loop_roll_first(_, _, _)
decide_after_roll(roll, bet_amount, i) ==
    IF bet_amount < JACKPOT_TIERS[JACKPOT_ORDER[i]].min_bet_multiplier * MIN_BET * 10
    THEN jackpot_loop_roll_first(roll.rng, bet_amount, i + 1)
    ELSE IF roll_below_chance(roll, JACKPOT_TIERS[JACKPOT_ORDER[i]].trigger_chance)
    THEN [tier |-> JACKPOT_ORDER[i],
          amount |-> (JACKPOT_TIERS[JACKPOT_ORDER[i]].seed_amount * PerBetUnits) \div MIN_BET,
          rng |-> roll.rng]
    ELSE jackpot_loop_roll_first(roll.rng, bet_amount, i + 1)

jackpot_loop_roll_first(g, bet_amount, i) ==
    IF i > Len(JACKPOT_ORDER)
    THEN [tier |-> None, amount |-> 0, rng |-> g]
    ELSE decide_after_roll(random_float(g), bet_amount, i)

\* A check_jackpot that goes on to the lower tiers after a win: the last winner is returned.
RECURSIVE jackpot_loop_no_stop(_, _, _)
keep_or_lower(won, lower) ==
    IF lower.tier # None THEN lower ELSE [won EXCEPT !.rng = lower.rng]

decide_no_stop(roll, bet_amount, i) ==
    IF roll_below_chance(roll, JACKPOT_TIERS[JACKPOT_ORDER[i]].trigger_chance)
    THEN keep_or_lower([tier |-> JACKPOT_ORDER[i],
                        amount |-> (JACKPOT_TIERS[JACKPOT_ORDER[i]].seed_amount * PerBetUnits)
                                       \div MIN_BET,
                        rng |-> roll.rng],
                       jackpot_loop_no_stop(roll.rng, bet_amount, i + 1))
    ELSE jackpot_loop_no_stop(roll.rng, bet_amount, i + 1)

jackpot_loop_no_stop(g, bet_amount, i) ==
    IF i > Len(JACKPOT_ORDER)
    THEN [tier |-> None, amount |-> 0, rng |-> g]
    ELSE IF bet_amount < JACKPOT_TIERS[JACKPOT_ORDER[i]].min_bet_multiplier * MIN_BET * 10
    THEN jackpot_loop_no_stop(g, bet_amount, i + 1)
    ELSE decide_no_stop(random_float(g), bet_amount, i)

\* The "for tier_id in [...]" loop of check_jackpot, from tier i on.
\* bet_amount is in tenths: bet_amount < min_required_bet compares with 10 times it.
RECURSIVE jackpot_loop(_, _, _)
jackpot_loop(g, bet_amount, i) ==
    IF i > Len(JACKPOT_ORDER)
    THEN [tier |-> None, amount |-> 0, rng |-> g]
    ELSE LET tier_id == JACKPOT_ORDER[i]
             tier == JACKPOT_TIERS[tier_id]
             min_required_bet == tier.min_bet_multiplier * MIN_BET
             roll == random_float(g)
         IN  IF bet_amount < min_required_bet * 10
             THEN jackpot_loop(g, bet_amount, i + 1)
             ELSE IF roll_below_chance(roll, tier.trigger_chance)
             THEN \* seed_amount * (bet_amount / MIN_BET), per unit of bet
                  [tier |-> tier_id, amount |-> (tier.seed_amount * PerBetUnits) \div MIN_BET,
                   rng |-> roll.rng]
             ELSE jackpot_loop(roll.rng, bet_amount, i + 1)

check_jackpot(g, bet_amount) == jackpot_loop(g, bet_amount, 1)

(***************************************************************************)
(* gamestate.py: run_spin, as a state machine                              *)
(***************************************************************************)
VARIABLES
    pc,                          \* the position inside run_spin ("idle": not called, "done": returned)
    args,                        \* the arguments of the call
    caller,                      \* who called run_spin, and what it keeps for after the return
    memo,                        \* the calls that returned earlier: their arguments and results
    response,                    \* what the caller of run_spin returned to its own caller
    rng,                         \* the ProvablyFairRNG of the call
    symbols, multipliers,        \* grid_state
    initial_grid, events,
    free_spins_triggered, total_payout, tumble_count, max_multiplier_seen,
    clusters, all_winning_positions, wild_positions_in_clusters,
    jackpot_won, jackpot_amount,
    result                       \* the SpinResult returned

callVars == <<caller, memo, response>>
gridVars == <<symbols, multipliers>>
loopVars == <<clusters, all_winning_positions, wild_positions_in_clusters>>
tallyVars == <<free_spins_triggered, total_payout, tumble_count, max_multiplier_seen>>
jackpotVars == <<jackpot_won, jackpot_amount>>
vars == <<pc, args, caller, memo, response, rng, symbols, multipliers, initial_grid, events,
          free_spins_triggered, total_payout, tumble_count, max_multiplier_seen,
          clusters, all_winning_positions, wild_positions_in_clusters,
          jackpot_won, jackpot_amount, result>>

NoRng == [server_seed |-> 0, client_seed |-> 0, nonce |-> 0, master_hash |-> <<>>,
          byte_index |-> 0, hash_index |-> 0]
NoArgs == [server_seed |-> 0, client_seed |-> 0, nonce |-> 0, bet_amount |-> 0,
           free_spin_mode |-> FALSE, free_spins_remaining |-> 0, existing_multipliers |-> <<>>,
           scatter_boost |-> FALSE, wild_boost |-> FALSE, forced_wild_positions |-> <<>>]
NoResult == [returned |-> FALSE]
NoResponse == [kind |-> "none"]
EmptyGrid == [pos \in Cells |-> None]

\* gamestate.py:650-654
RECURSIVE apply_forced_wilds(_, _)
apply_forced_wilds(initial_symbols, forced_wild_positions) ==
    IF forced_wild_positions = <<>> THEN initial_symbols
    ELSE LET row == Head(forced_wild_positions)[1]
             col == Head(forced_wild_positions)[2]
         IN  apply_forced_wilds(
                 IF InBounds(row, col) THEN [initial_symbols EXCEPT ![<<row, col>>] = WILD]
                 ELSE initial_symbols,
                 Tail(forced_wild_positions))

\* gamestate.py:660-662: existing_multipliers[row][col] is read for every row below GRID_ROWS
\* and every col below GRID_COLS; a list too short for one of them raises IndexError.
restore_raises(existing_multipliers) ==
    /\ existing_multipliers # <<>>
    /\ \E row \in 0..(GRID_ROWS - 1), col \in 0..(GRID_COLS - 1) :
          \/ row + 1 > Len(existing_multipliers)
          \/ col + 1 > Len(existing_multipliers[row + 1])

\* gamestate.py:659-662; existing_multipliers is a list of rows.
restore_multipliers(current, existing_multipliers) ==
    IF existing_multipliers # <<>>
    THEN [pos \in Cells |-> existing_multipliers[pos[1] + 1][pos[2] + 1]]
    ELSE current

\* A trigger one scatter below the threshold.
triggers_one_below(scatter_count) == scatter_count >= SCATTER_TRIGGER_MIN - 1

\* gamestate.py:687, 706, 833: "scatter_count >= 3"
triggers_free_spins(scatter_count) == scatter_count >= SCATTER_TRIGGER_MIN

\* dict.get(key, default)
table_get(table, key, default) == IF key \in DOMAIN table THEN table[key] ELSE default

\* The base-game table in both modes.
scatter_award_base_table(free_spin_mode, scatter_count) ==
    IF triggers_free_spins(scatter_count)
    THEN table_get(SCATTER_FREE_SPINS, Min(scatter_count, SCATTER_CAP), SCATTER_FREE_SPINS[SCATTER_CAP])
    ELSE 0

\* gamestate.py:684-721 and 833-865: the award for a scatter count, 0 for none.
scatter_award(free_spin_mode, scatter_count) ==
    IF free_spin_mode
    THEN IF triggers_free_spins(scatter_count)
         THEN table_get(SCATTER_RETRIGGER, Min(scatter_count, SCATTER_CAP),
                        SCATTER_RETRIGGER[SCATTER_CAP])
         ELSE 0
    ELSE IF triggers_free_spins(scatter_count)
         THEN table_get(SCATTER_FREE_SPINS, Min(scatter_count, SCATTER_CAP),
                        SCATTER_FREE_SPINS[SCATTER_CAP])
         ELSE 0

trigger_event(free_spin_mode, scatter_positions) ==
    [type |-> "free_spins_trigger", scatterCount |-> Len(scatter_positions),
     positions |-> scatter_positions,
     freeSpinsAwarded |-> scatter_award(free_spin_mode, Len(scatter_positions)),
     isRetrigger |-> free_spin_mode]

RECURSIVE concat_positions(_)
concat_positions(cs) ==
    IF cs = <<>> THEN <<>> ELSE Head(cs).positions \o concat_positions(Tail(cs))

InSeq(x, xs) == \E i \in 1..Len(xs) : xs[i] = x

\* Every wild cell of the grid, in a winning cluster or not.
collect_wilds_on_grid(syms, positions, wilds) ==
    wilds \o SelectSeq(AllPositions, LAMBDA p : syms[p] = WILD)

\* gamestate.py:742-748: the wild cells of the winning clusters, each listed once.
RECURSIVE collect_wilds(_, _, _)
collect_wilds(syms, positions, wilds) ==
    IF positions = <<>> THEN wilds
    ELSE collect_wilds(syms, Tail(positions),
                       IF syms[Head(positions)] = WILD /\ ~InSeq(Head(positions), wilds)
                       THEN Append(wilds, Head(positions)) ELSE wilds)

\* A win event with the multiplier the cluster had when it was found.
win_event_stale(cluster, mults, bet_amount) ==
    [type |-> "win", clusterId |-> cluster.cluster_id, symbol |-> cluster.symbol,
     positions |-> cluster.positions, size |-> cluster.size,
     basePayout |-> cluster.base_payout, multiplier |-> cluster.multiplier,
     amount |-> IF bet_amount = 0 THEN 0 ELSE cluster.total_payout * CentUnits]

\* gamestate.py:763-787: one win event per cluster, with the multipliers as they are now;
\* cluster_payout is new_total_payout * bet_amount, carried per unit of bet (zero for a zero bet).
win_event(cluster, mults, bet_amount) ==
    LET new_max_mult == max_mult(mults, cluster.positions)
        new_total_payout == cluster.base_payout * new_max_mult
        cluster_payout == IF bet_amount = 0 THEN 0 ELSE new_total_payout * CentUnits
    IN  [type |-> "win", clusterId |-> cluster.cluster_id, symbol |-> cluster.symbol,
         positions |-> cluster.positions, size |-> cluster.size,
         basePayout |-> cluster.base_payout, multiplier |-> new_max_mult,
         amount |-> cluster_payout]

RECURSIVE sum_amounts(_)
sum_amounts(es) == IF es = <<>> THEN 0 ELSE Head(es).amount + sum_amounts(Tail(es))

RECURSIVE max_of(_, _)
max_of(start, values) ==
    IF values = <<>> THEN start ELSE max_of(Max(start, Head(values)), Tail(values))

\* The payout multiplier without the cap.
uncapped_payout_multiplier(total, bet_amount) == IF bet_amount > 0 THEN total ELSE 0

\* gamestate.py:883-884
final_payout_multiplier(total, bet_amount) ==
    LET payout_multiplier == IF bet_amount > 0 THEN total ELSE 0
    IN  Min(payout_multiplier, MAX_WIN_MULTIPLIER * PerBetUnits)

\* gamestate.py:887-889
remaining_after(free_spin_mode, free_spins_remaining, triggered) ==
    LET new_remaining == IF free_spin_mode THEN free_spins_remaining - 1 ELSE 0
    IN  IF triggered > 0 THEN Max(new_remaining, 0) + triggered ELSE new_remaining

(***************************************************************************)
(* The calls the model makes.                                              *)
(***************************************************************************)
MaxNonce == 2
TumbleCap == 51
MaxFreeSpinsLeft == 2

ServerSeeds == {1, 2}
ClientSeeds == {1, 2}
Nonces == 0..MaxNonce

\* A carry-over grid is a list of GRID_ROWS rows of GRID_COLS multipliers.
UniformGrid(v) == [r \in 1..GRID_ROWS |-> [c \in 1..GRID_COLS |-> v]]

\* api/main.py:544-553, 603-612: a free spin carries the final multipliers of the spin before
\* it; a base spin carries nothing.
\* run_spin takes the grid as it is given (gamestate.py:658-662), one above the maximum too.
CarryGrids == {<<>>, UniformGrid(GHOST_SPOT_BASE), UniformGrid(MAX_MULTIPLIER),
               UniformGrid(2 * MAX_MULTIPLIER)}

\* Bets are in tenths of a currency unit.
UnitBet == 10
\* MIN_BET * 10 is the bet MIN_BET: the smallest bet check_jackpot takes for the mini tier;
\* twice and ten times it reach the minor and the grand tier.
Bets == {0, UnitBet, MIN_BET * 10, 2 * MIN_BET * 10, 10 * MIN_BET * 10}

Boosts == {<<TRUE, FALSE>>, <<FALSE, TRUE>>, <<TRUE, TRUE>>}

ForcedWilds == << <<0, 0>>, <<4, 5>>, <<5, 0>> >>
EdgeWilds == << <<4, 4>>, <<-1, 2>> >>

\* Carry-over grids of other dimensions than GRID_ROWS x GRID_COLS: a row missing, a column
\* missing, and a row and a column too many (with another value in them).
FewerRows == [r \in 1..(GRID_ROWS - 1) |-> [c \in 1..GRID_COLS |-> GHOST_SPOT_BASE]]
ShorterRows == [r \in 1..GRID_ROWS |-> [c \in 1..(GRID_COLS - 1) |-> GHOST_SPOT_BASE]]
LargerGrid ==
    [r \in 1..(GRID_ROWS + 1) |->
        [c \in 1..(GRID_COLS + 1) |->
            IF r <= GRID_ROWS /\ c <= GRID_COLS THEN GHOST_SPOT_BASE ELSE MAX_MULTIPLIER]]
OtherDimensions == {FewerRows, ShorterRows, LargerGrid}

MakeArgs(s, c, n, bet, fs, left, carry, boost, forced) ==
    [server_seed |-> s, client_seed |-> c, nonce |-> n, bet_amount |-> bet,
     free_spin_mode |-> fs, free_spins_remaining |-> left, existing_multipliers |-> carry,
     scatter_boost |-> boost[1], wild_boost |-> boost[2], forced_wild_positions |-> forced]

Triples == ServerSeeds \X ClientSeeds \X Nonces

\* api/main.py:1144-1152 (test_spin) and gamestate.py:912-935 (verify_spin): seeds and a bet.
PlainCalls ==
    {MakeArgs(t[1], t[2], t[3], bet, FALSE, 0, <<>>, <<FALSE, FALSE>>, <<>>) :
        t \in Triples, bet \in Bets}

\* api/main.py:561-571 outside free spins: no carry-over, the boosts of the request.
BoostCalls ==
    {MakeArgs(t[1], t[2], t[3], UnitBet, FALSE, 0, <<>>, boost, <<>>) :
        t \in Triples, boost \in Boosts}

\* api/main.py:561-571 during free spins: the carry-over and the spins left of the session.
FreeSpinCalls ==
    {MakeArgs(x[1][1], x[1][2], x[1][3], UnitBet, TRUE, x[2], x[3], <<FALSE, FALSE>>, <<>>) :
        x \in Triples \X (1..MaxFreeSpinsLeft) \X CarryGrids}

\* gamestate.py:620: a direct call with forced wild positions.
ForcedCalls ==
    {MakeArgs(t[1], t[2], t[3], UnitBet, FALSE, 0, <<>>, <<FALSE, FALSE>>, forced) :
        t \in Triples, forced \in {ForcedWilds, EdgeWilds}}

\* A free spin at a bet that reaches every jackpot tier.
HighBetFreeSpinCalls ==
    {MakeArgs(t[1], t[2], t[3], 10 * MIN_BET * 10, TRUE, 1, <<>>, <<FALSE, FALSE>>, <<>>) :
        t \in Triples}

\* gamestate.py:617: a direct call of run_spin with a carry-over grid of other dimensions.
OtherDimensionCalls ==
    {MakeArgs(t[1], t[2], t[3], UnitBet, TRUE, 1, carry, <<FALSE, FALSE>>, <<>>) :
        t \in Triples, carry \in OtherDimensions}

CallArgs == PlainCalls \cup BoostCalls \cup FreeSpinCalls \cup ForcedCalls \cup
            HighBetFreeSpinCalls \cup OtherDimensionCalls

\* The calls that are repeated, with other calls in between.
MaxSpins == 3
RepeatArgs ==
    {MakeArgs(1, 1, 1, UnitBet, FALSE, 0, <<>>, <<FALSE, FALSE>>, <<>>),
     MakeArgs(1, 1, 2, UnitBet, FALSE, 0, <<>>, <<FALSE, FALSE>>, <<>>),
     MakeArgs(1, 1, 2, UnitBet, TRUE, 1, UniformGrid(GHOST_SPOT_BASE), <<FALSE, FALSE>>, <<>>)}

\* The verifications: the spins of the first server seed, and claimed payouts at, near and
\* far from the payouts those spins have (0, 0.08), in per-bet units.
TOLERANCE == 10
VerifyTriples == {t \in Triples : t[1] = 1}
Offsets == {0, TOLERANCE - 1, TOLERANCE + 1, PerBetUnits}
ClaimedPayouts ==
    {p + d : p \in {0, 8 * CentUnits}, d \in Offsets} \cup
    {p - d : p \in {0, 8 * CentUnits}, d \in Offsets}

(***************************************************************************)
(* run_spin, step by step                                                  *)
(***************************************************************************)
\* gamestate.py:644-656: the generator, the initial grid, the forced wilds, the grid state.
EnterWith(a, g0) ==
    LET gen == generate_grid(g0, a.free_spin_mode, a.scatter_boost, a.wild_boost)
        initial_symbols == apply_forced_wilds(gen.grid, a.forced_wild_positions)
        grid_state == GridState(initial_symbols)
    IN  /\ args' = a
        /\ rng' = gen.rng
        /\ symbols' = grid_state.symbols
        /\ multipliers' = grid_state.multipliers
        /\ initial_grid' = <<>>
        /\ events' = <<>>
        /\ free_spins_triggered' = 0
        /\ total_payout' = 0
        /\ tumble_count' = 0
        /\ max_multiplier_seen' = 1
        /\ clusters' = <<>>
        /\ all_winning_positions' = <<>>
        /\ wild_positions_in_clusters' = <<>>
        /\ jackpot_won' = None
        /\ jackpot_amount' = 0
        /\ result' = NoResult
        /\ pc' = "restore"

\* A run_spin whose generator keeps the byte position the call before left it at.
EnterSharedRng(a) ==
    EnterWith(a, [create_rng(a.server_seed, a.client_seed, a.nonce)
                     EXCEPT !.byte_index = rng.byte_index])

Enter(a) == EnterWith(a, create_rng(a.server_seed, a.client_seed, a.nonce))

Call ==
    /\ pc = "idle"
    /\ \E a \in CallArgs : Enter(a)
    /\ caller' = [kind |-> "direct"]
    /\ UNCHANGED <<memo, response>>

\* gamestate.py:658-662
\* The IndexError of a list too short leaves run_spin: nothing is returned ("raised"), and
\* the grid state built so far is dropped with the call.
RestoreMultipliers ==
    /\ pc = "restore"
    /\ IF restore_raises(args.existing_multipliers)
       THEN /\ result' = [returned |-> FALSE, error |-> "IndexError"]
            /\ pc' = "raised"
            /\ UNCHANGED multipliers
       ELSE /\ multipliers' = restore_multipliers(multipliers, args.existing_multipliers)
            /\ pc' = "reveal"
            /\ UNCHANGED result
    /\ UNCHANGED <<args, callVars, rng, symbols, initial_grid, events, tallyVars,
                   loopVars, jackpotVars>>

\* gamestate.py:664-726: the reveal event and the scatter check on the initial grid.
Reveal ==
    /\ pc = "reveal"
    /\ LET grid == get_symbol_grid(symbols)
           scatter_positions == count_scatters(symbols)
           award == scatter_award(args.free_spin_mode, Len(scatter_positions))
           reveal == [type |-> "reveal", positions |-> AllPositions,
                      symbols |-> [k \in 1..(GRID_ROWS * GRID_COLS) |->
                                      grid[CellAt(k)[1] + 1][CellAt(k)[2] + 1]]]
       IN  /\ initial_grid' = grid
           /\ free_spins_triggered' = award
           /\ events' = IF triggers_free_spins(Len(scatter_positions))
                        THEN <<reveal, trigger_event(args.free_spin_mode, scatter_positions)>>
                        ELSE <<reveal>>
    /\ total_payout' = 0
    /\ tumble_count' = 0
    /\ max_multiplier_seen' = 1
    /\ pc' = "find"
    /\ UNCHANGED <<args, callVars, rng, gridVars, loopVars, jackpotVars, result>>

\* gamestate.py:729-748: the head of the tumble loop.  The model follows a spin for
\* at most TumbleCap iterations.
FindClusters ==
    /\ pc = "find"
    /\ LET found == find_all_clusters([symbols |-> symbols, multipliers |-> multipliers])
       IN  IF found = <<>>
           THEN /\ pc' = "jackpot"
                /\ UNCHANGED <<tumble_count, loopVars>>
           ELSE /\ tumble_count < TumbleCap
                /\ tumble_count' = tumble_count + 1
                /\ clusters' = found
                /\ all_winning_positions' = concat_positions(found)
                /\ wild_positions_in_clusters' = collect_wilds(symbols, concat_positions(found), <<>>)
                /\ pc' = "wilds"
    /\ UNCHANGED <<args, callVars, rng, gridVars, initial_grid, events,
                   free_spins_triggered, total_payout, max_multiplier_seen, jackpotVars, result>>

\* gamestate.py:750-759
WildExplosions ==
    /\ pc = "wilds"
    /\ IF wild_positions_in_clusters # <<>>
       THEN LET x == apply_wild_explosions(multipliers, wild_positions_in_clusters, rng)
            IN  /\ multipliers' = x.multipliers
                /\ rng' = x.rng
                /\ events' = events \o [i \in 1..Len(x.explosions) |->
                                           [type |-> "wild_explosion"] @@ x.explosions[i]]
                /\ max_multiplier_seen' =
                       max_of(max_multiplier_seen,
                              [i \in 1..Len(x.explosions) |-> x.explosions[i].maxNewMultiplier])
       ELSE UNCHANGED <<multipliers, rng, events, max_multiplier_seen>>
    /\ pc' = "wins"
    /\ UNCHANGED <<args, callVars, symbols, initial_grid, free_spins_triggered,
                   total_payout, tumble_count, loopVars, jackpotVars, result>>

\* gamestate.py:761-787
Wins ==
    /\ pc = "wins"
    /\ LET wins == [i \in 1..Len(clusters) |-> win_event(clusters[i], multipliers, args.bet_amount)]
       IN  /\ events' = events \o wins
           /\ total_payout' = total_payout + sum_amounts(wins)
           /\ max_multiplier_seen' =
                  max_of(max_multiplier_seen, [i \in 1..Len(wins) |-> wins[i].multiplier])
    /\ pc' = "upgrade"
    /\ UNCHANGED <<args, callVars, rng, gridVars, initial_grid, free_spins_triggered,
                   tumble_count, loopVars, jackpotVars, result>>

\* An escalation that writes no multiplier_upgrade event.
UpgradeWithoutEvents ==
    /\ pc = "upgrade"
    /\ LET u == upgrade_multipliers(multipliers, all_winning_positions)
       IN  /\ multipliers' = u.multipliers
           /\ max_multiplier_seen' =
                  max_of(max_multiplier_seen, [i \in 1..Len(u.upgrades) |-> u.upgrades[i].value])
    /\ pc' = "remove"
    /\ UNCHANGED <<args, callVars, rng, symbols, initial_grid, events, free_spins_triggered,
                   total_payout, tumble_count, loopVars, jackpotVars, result>>

\* gamestate.py:789-801
Upgrade ==
    /\ pc = "upgrade"
    /\ LET u == upgrade_multipliers(multipliers, all_winning_positions)
       IN  /\ multipliers' = u.multipliers
           /\ events' = events \o [i \in 1..Len(u.upgrades) |->
                                      [type |-> "multiplier_upgrade",
                                       position |-> u.upgrades[i].position,
                                       value |-> u.upgrades[i].value]]
           /\ max_multiplier_seen' =
                  max_of(max_multiplier_seen, [i \in 1..Len(u.upgrades) |-> u.upgrades[i].value])
    /\ pc' = "remove"
    /\ UNCHANGED <<args, callVars, rng, symbols, initial_grid, free_spins_triggered,
                   total_payout, tumble_count, loopVars, jackpotVars, result>>

\* gamestate.py:803-804
Remove ==
    /\ pc = "remove"
    /\ symbols' = remove_symbols(symbols, all_winning_positions).symbols
    /\ pc' = "gravity"
    /\ UNCHANGED <<args, callVars, rng, multipliers, initial_grid, events, tallyVars,
                   loopVars, jackpotVars, result>>

\* The multipliers when each one falls with the symbol of its cell.
RECURSIVE carry_multipliers(_, _)
carry_multipliers(mults, movements) ==
    IF movements = <<>> THEN mults
    ELSE carry_multipliers([mults EXCEPT ![Head(movements).to] = mults[Head(movements).from],
                                         ![Head(movements).from] = INITIAL_MULTIPLIER],
                           Tail(movements))

\* A gravity under which the multipliers fall with the symbols.
GravityCarryingMultipliers ==
    /\ pc = "gravity"
    /\ LET g == apply_gravity(symbols)
       IN  /\ symbols' = g.symbols
           /\ multipliers' = carry_multipliers(multipliers, g.movements)
           /\ events' = IF g.movements # <<>>
                        THEN Append(events, [type |-> "tumble", movements |-> g.movements])
                        ELSE events
    /\ pc' = "fill"
    /\ UNCHANGED <<args, callVars, rng, initial_grid, tallyVars,
                   loopVars, jackpotVars, result>>

\* gamestate.py:806-815
Gravity ==
    /\ pc = "gravity"
    /\ LET g == apply_gravity(symbols)
       IN  /\ symbols' = g.symbols
           /\ events' = IF g.movements # <<>>
                        THEN Append(events, [type |-> "tumble", movements |-> g.movements])
                        ELSE events
    /\ pc' = "fill"
    /\ UNCHANGED <<args, callVars, rng, multipliers, initial_grid, tallyVars,
                   loopVars, jackpotVars, result>>

\* A refill that awards free spins whenever the grid holds three scatters or more.
FillAwardingAgain ==
    /\ pc = "fill"
    /\ LET empty_positions == get_empty_positions(symbols)
           f == fill_symbols(symbols, rng, empty_positions, args.free_spin_mode,
                             args.scatter_boost, args.wild_boost)
           new_scatter_positions == count_scatters(f.symbols)
           triggers == triggers_free_spins(Len(new_scatter_positions))
       IN  IF empty_positions # <<>>
           THEN /\ symbols' = f.symbols
                /\ rng' = f.rng
                /\ events' = events \o <<[type |-> "fill", fills |-> f.fills]>> \o
                             (IF triggers
                              THEN <<trigger_event(args.free_spin_mode, new_scatter_positions)>>
                              ELSE <<>>)
                /\ free_spins_triggered' =
                       IF triggers
                       THEN scatter_award(args.free_spin_mode, Len(new_scatter_positions))
                       ELSE free_spins_triggered
           ELSE UNCHANGED <<symbols, rng, events, free_spins_triggered>>
    /\ pc' = "find"
    /\ UNCHANGED <<args, callVars, multipliers, initial_grid, total_payout, tumble_count,
                   max_multiplier_seen, loopVars, jackpotVars, result>>

\* A refill that announces the free spins before the symbols that award them.
FillAfterTrigger ==
    /\ pc = "fill"
    /\ LET empty_positions == get_empty_positions(symbols)
           f == fill_symbols(symbols, rng, empty_positions, args.free_spin_mode,
                             args.scatter_boost, args.wild_boost)
           new_scatter_positions == count_scatters(f.symbols)
           triggers == /\ free_spins_triggered = 0
                       /\ triggers_free_spins(Len(new_scatter_positions))
       IN  IF empty_positions # <<>>
           THEN /\ symbols' = f.symbols
                /\ rng' = f.rng
                /\ events' = events \o
                             (IF triggers
                              THEN <<trigger_event(args.free_spin_mode, new_scatter_positions)>>
                              ELSE <<>>) \o <<[type |-> "fill", fills |-> f.fills]>>
                /\ free_spins_triggered' =
                       IF triggers
                       THEN scatter_award(args.free_spin_mode, Len(new_scatter_positions))
                       ELSE free_spins_triggered
           ELSE UNCHANGED <<symbols, rng, events, free_spins_triggered>>
    /\ pc' = "find"
    /\ UNCHANGED <<args, callVars, multipliers, initial_grid, total_payout, tumble_count,
                   max_multiplier_seen, loopVars, jackpotVars, result>>

\* gamestate.py:817-865: the refill and the scatter check after it.
Fill ==
    /\ pc = "fill"
    /\ LET empty_positions == get_empty_positions(symbols)
           f == fill_symbols(symbols, rng, empty_positions, args.free_spin_mode,
                             args.scatter_boost, args.wild_boost)
           new_scatter_positions == count_scatters(f.symbols)
           triggers == /\ free_spins_triggered = 0
                       /\ triggers_free_spins(Len(new_scatter_positions))
       IN  IF empty_positions # <<>>
           THEN /\ symbols' = f.symbols
                /\ rng' = f.rng
                /\ events' = events \o <<[type |-> "fill", fills |-> f.fills]>> \o
                             (IF triggers
                              THEN <<trigger_event(args.free_spin_mode, new_scatter_positions)>>
                              ELSE <<>>)
                /\ free_spins_triggered' =
                       IF triggers
                       THEN scatter_award(args.free_spin_mode, Len(new_scatter_positions))
                       ELSE free_spins_triggered
           ELSE UNCHANGED <<symbols, rng, events, free_spins_triggered>>
    /\ pc' = "find"
    /\ UNCHANGED <<args, callVars, multipliers, initial_grid, total_payout, tumble_count,
                   max_multiplier_seen, loopVars, jackpotVars, result>>

\* A jackpot check in every mode.
JackpotInEveryMode ==
    /\ pc = "jackpot"
    /\ LET j == check_jackpot(rng, args.bet_amount)
       IN  /\ jackpot_won' = j.tier
           /\ jackpot_amount' = j.amount
           /\ rng' = j.rng
           /\ events' = IF j.tier # None
                        THEN Append(events, [type |-> "jackpot_win", tier |-> j.tier,
                                             amount |-> j.amount])
                        ELSE events
           /\ total_payout' = IF j.tier # None THEN total_payout + j.amount ELSE total_payout
    /\ pc' = "return"
    /\ UNCHANGED <<args, callVars, gridVars, initial_grid, free_spins_triggered,
                   tumble_count, max_multiplier_seen, loopVars, result>>

\* gamestate.py:867-880
Jackpot ==
    /\ pc = "jackpot"
    /\ IF ~args.free_spin_mode
       THEN LET j == check_jackpot(rng, args.bet_amount)
            IN  /\ jackpot_won' = j.tier
                /\ jackpot_amount' = j.amount
                /\ rng' = j.rng
                /\ events' = IF j.tier # None
                             THEN Append(events, [type |-> "jackpot_win", tier |-> j.tier,
                                                  amount |-> j.amount])
                             ELSE events
                /\ total_payout' = IF j.tier # None THEN total_payout + j.amount ELSE total_payout
       ELSE UNCHANGED <<jackpot_won, jackpot_amount, rng, events, total_payout>>
    /\ pc' = "return"
    /\ UNCHANGED <<args, callVars, gridVars, initial_grid, free_spins_triggered,
                   tumble_count, max_multiplier_seen, loopVars, result>>

\* gamestate.py:882-905
SpinResult ==
    [returned |-> TRUE,
     payout_multiplier |-> final_payout_multiplier(total_payout, args.bet_amount),
     events |-> events,
     initial_grid |-> initial_grid,
     final_grid |-> get_symbol_grid(symbols),
     final_multipliers |-> multipliers,
     tumble_count |-> tumble_count,
     max_multiplier |-> max_multiplier_seen,
     seed_data |-> [server_seed |-> rng.server_seed, client_seed |-> rng.client_seed,
                    nonce |-> rng.nonce],
     free_spins_triggered |-> free_spins_triggered,
     free_spins_remaining |-> remaining_after(args.free_spin_mode, args.free_spins_remaining,
                                              free_spins_triggered),
     is_free_spin |-> args.free_spin_mode,
     jackpot_won |-> jackpot_won,
     jackpot_amount |-> jackpot_amount]

Return ==
    /\ pc = "return"
    /\ result' = SpinResult
    /\ pc' = "done"
    /\ UNCHANGED <<args, callVars, rng, gridVars, initial_grid, events, tallyVars,
                   loopVars, jackpotVars>>

(***************************************************************************)
(* Spins one after the other (api/main.py: one run_spin per request).      *)
(***************************************************************************)
CallFirst ==
    /\ pc = "idle"
    /\ \E a \in RepeatArgs : Enter(a)
    /\ caller' = [kind |-> "direct"]
    /\ UNCHANGED <<memo, response>>

CallAgain ==
    /\ pc = "done"
    /\ caller.kind = "direct"
    /\ Len(memo) + 1 < MaxSpins
    /\ memo' = Append(memo, [args |-> args, result |-> result])
    /\ \E a \in RepeatArgs : Enter(a)
    /\ UNCHANGED <<caller, response>>

(***************************************************************************)
(* gamestate.py: verify_spin, and the /verify endpoint of api/main.py      *)
(***************************************************************************)
\* A mismatch counts only when the two payouts differ at all.
exact_match(payout_multiplier, expected_payout) == payout_multiplier = expected_payout

\* gamestate.py:933: abs(result.payout_multiplier - expected_payout) < 0.001
within_tolerance(payout_multiplier, expected_payout) ==
    LET difference == payout_multiplier - expected_payout
        abs == IF difference < 0 THEN -difference ELSE difference
    IN  abs < TOLERANCE

\* gamestate.py:912-932: verify_spin runs the spin again from the seeds and the bet.
CallVerifySpin ==
    /\ pc = "idle"
    /\ \E t \in VerifyTriples, e \in ClaimedPayouts :
          /\ Enter(MakeArgs(t[1], t[2], t[3], UnitBet, FALSE, 0, <<>>, <<FALSE, FALSE>>, <<>>))
          /\ caller' = [kind |-> "verify_spin", expected_payout |-> e, claimed |-> e]
    /\ UNCHANGED <<memo, response>>

\* api/main.py:885-893: the endpoint calls verify_spin with expected_payout = 0.  The request
\* (VerifyRequest, api/main.py:237-242) has no field for the payout the client was told;
\* "claimed" is that payout, known to the client only.
CallVerifyResult ==
    /\ pc = "idle"
    /\ \E t \in VerifyTriples, e \in ClaimedPayouts :
          /\ Enter(MakeArgs(t[1], t[2], t[3], UnitBet, FALSE, 0, <<>>, <<FALSE, FALSE>>, <<>>))
          /\ caller' = [kind |-> "verify_result", expected_payout |-> 0, claimed |-> e]
    /\ UNCHANGED <<memo, response>>

\* gamestate.py:933-935
VerifySpinReturn ==
    /\ pc = "done"
    /\ caller.kind \in {"verify_spin", "verify_result"}
    /\ response' = [kind |-> "verify_spin",
                    is_valid |-> within_tolerance(result.payout_multiplier, caller.expected_payout),
                    result |-> result]
    /\ pc' = "verified"
    /\ UNCHANGED <<args, caller, memo, rng, gridVars, initial_grid, events, tallyVars,
                   loopVars, jackpotVars, result>>

\* api/main.py:895-900
VerifyResultReturn ==
    /\ pc = "verified"
    /\ caller.kind = "verify_result"
    /\ response' = [kind |-> "verify_result",
                    isValid |-> TRUE,
                    payoutMultiplier |-> response.result.payout_multiplier,
                    initialGrid |-> response.result.initial_grid,
                    events |-> response.result.events]
    /\ pc' = "responded"
    /\ UNCHANGED <<args, caller, memo, rng, gridVars, initial_grid, events, tallyVars,
                   loopVars, jackpotVars, result>>

Step ==
    \/ RestoreMultipliers
    \/ Reveal
    \/ FindClusters
    \/ WildExplosions
    \/ Wins
    \/ Upgrade
    \/ Remove
    \/ Gravity
    \/ Fill
    \/ Jackpot
    \/ Return

Init ==
    /\ pc = "idle"
    /\ args = NoArgs
    /\ caller = [kind |-> "none"]
    /\ memo = <<>>
    /\ response = NoResponse
    /\ rng = NoRng
    /\ symbols = EmptyGrid
    /\ multipliers = [pos \in Cells |-> INITIAL_MULTIPLIER]
    /\ initial_grid = <<>>
    /\ events = <<>>
    /\ free_spins_triggered = 0
    /\ total_payout = 0
    /\ tumble_count = 0
    /\ max_multiplier_seen = 1
    /\ clusters = <<>>
    /\ all_winning_positions = <<>>
    /\ wild_positions_in_clusters = <<>>
    /\ jackpot_won = None
    /\ jackpot_amount = 0
    /\ result = NoResult

Next ==
    \/ Call
    \/ RestoreMultipliers
    \/ Reveal
    \/ FindClusters
    \/ WildExplosions
    \/ Wins
    \/ Upgrade
    \/ Remove
    \/ Gravity
    \/ Fill
    \/ Jackpot
    \/ Return

Spec == Init /\ [][Next]_vars

NextRepeat ==
    \/ CallFirst
    \/ CallAgain
    \/ Step

SpecRepeat == Init /\ [][NextRepeat]_vars

NextVerify ==
    \/ CallVerifySpin
    \/ CallVerifyResult
    \/ Step
    \/ VerifySpinReturn
    \/ VerifyResultReturn

SpecVerify == Init /\ [][NextVerify]_vars

(***************************************************************************)
(* A spin in one of the modes of the API, then verify_spin on its result   *)
(***************************************************************************)
\* run_spin as api/main.py:561-571 calls it: a base-game spin, a spin with the boosts of
\* the request, or a free spin with one spin left and the carry-over of the session.
RoundTripCalls ==
    {a \in PlainCalls : a.bet_amount = UnitBet} \cup BoostCalls \cup
    {a \in FreeSpinCalls : /\ a.free_spins_remaining = 1
                           /\ a.existing_multipliers \in {<<>>, UniformGrid(GHOST_SPOT_BASE)}}

CallRunSpin ==
    /\ pc = "idle"
    /\ \E a \in RoundTripCalls : Enter(a)
    /\ caller' = [kind |-> "played"]
    /\ UNCHANGED <<memo, response>>

\* gamestate.py:912-932: verify_spin(server_seed, client_seed, nonce, expected_payout,
\* bet_amount) with the seeds and the bet of the spin that returned and its payout
\* multiplier; the spin and its result are remembered.
CallVerifySpinOfResult ==
    /\ pc = "done"
    /\ caller.kind = "played"
    /\ memo' = <<[args |-> args, result |-> result]>>
    /\ Enter(MakeArgs(args.server_seed, args.client_seed, args.nonce, args.bet_amount,
                      FALSE, 0, <<>>, <<FALSE, FALSE>>, <<>>))
    /\ caller' = [kind |-> "verify_spin", expected_payout |-> result.payout_multiplier,
                  claimed |-> result.payout_multiplier]
    /\ UNCHANGED response

NextRoundTrip ==
    \/ CallRunSpin
    \/ CallVerifySpinOfResult
    \/ Step
    \/ VerifySpinReturn

SpecRoundTrip == Init /\ [][NextRoundTrip]_vars

(***************************************************************************)
(* api/main.py: one session and the endpoints that read or change it       *)
(***************************************************************************)
MaxRequests == 3

\* generate_server_seed (random_generator.py:333-341) returns 32 random bytes: a seed the
\* session has not had before.
SessionSeeds == 1..3
SessionClientSeeds == {1}

\* hash_server_seed (random_generator.py:344-354): the SHA-256 digest, a value that is not a seed.
hash_server_seed(server_seed) == <<"sha256", server_seed>>

\* SeedData.to_verification_dict (random_generator.py:35-41)
SeedData_to_verification_dict(seed_data) ==
    [serverSeed |-> seed_data.server_seed, clientSeed |-> seed_data.client_seed,
     nonce |-> seed_data.nonce]

\* SeedData.to_dict (random_generator.py:27-33)
SeedData_to_dict(seed_data) ==
    [serverSeedHash |-> hash_server_seed(seed_data.server_seed),
     clientSeed |-> seed_data.client_seed, nonce |-> seed_data.nonce]

\* GridState.get_multiplier_grid (gamestate.py:155-157): the multipliers as a list of rows.
get_multiplier_grid(mults) ==
    [r \in 1..GRID_ROWS |-> [c \in 1..GRID_COLS |-> mults[<<r - 1, c - 1>>]]]

\* SpinResult.to_dict (gamestate.py:91-109)
SpinResult_to_dict(r) ==
    [payoutMultiplier |-> r.payout_multiplier, events |-> r.events,
     initialGrid |-> r.initial_grid, finalGrid |-> r.final_grid,
     finalMultipliers |-> get_multiplier_grid(r.final_multipliers),
     tumbleCount |-> r.tumble_count, maxMultiplier |-> r.max_multiplier,
     seedInfo |-> SeedData_to_dict(r.seed_data),
     freeSpinsTriggered |-> r.free_spins_triggered,
     freeSpinsRemaining |-> r.free_spins_remaining, isFreeSpin |-> r.is_free_spin] @@
    (IF r.jackpot_won # None
     THEN [jackpotWon |-> r.jackpot_won, jackpotAmount |-> r.jackpot_amount]
     ELSE <<>>)

\* create_session (api/main.py:373-400); free_spin_multipliers None is <<>>.
create_session(server_seed) ==
    [server_seed |-> server_seed, server_seed_hash |-> hash_server_seed(server_seed),
     nonce |-> 0, history |-> <<>>, free_spins_remaining |-> 0,
     free_spin_multipliers |-> <<>>, free_spin_bet_amount |-> 0]

\* SessionResponse (api/main.py:254-260), without the balance and the configuration.
SessionResponse(session) ==
    [kind |-> "session", serverSeedHash |-> session.server_seed_hash, nonce |-> session.nonce]

\* What the model keeps of the session: the session, the seeds it has replaced, the number
\* of requests handled, and the request in progress with the locals of its handler.
SessionCaller(session, retired, handled, endpoint, locals) ==
    [kind |-> "session", session |-> session, retired |-> retired, handled |-> handled,
     endpoint |-> endpoint, locals |-> locals]

NoLocals == [is_free_spin |-> FALSE, nonce |-> 0, bet_amount |-> 0]

HasSession == caller.kind = "session"

\* create_session(request.sessionID): the session of the id, made now if there is none.
SessionsNow == IF HasSession THEN {caller.session} ELSE {create_session(s) : s \in SessionSeeds}
RetiredNow == IF HasSession THEN caller.retired ELSE {}
HandledNow == IF HasSession THEN caller.handled ELSE 0

\* The arguments play_legacy (api/main.py:800-828) and wallet_play (api/main.py:539-571)
\* give run_spin; the boosts of the request are off.
PlayLocals(session, bet_amount) ==
    IF session.free_spins_remaining > 0
    THEN [is_free_spin |-> TRUE, nonce |-> session.nonce,
          bet_amount |-> session.free_spin_bet_amount]
    ELSE [is_free_spin |-> FALSE, nonce |-> session.nonce, bet_amount |-> bet_amount]

PlayArgs(session, client_seed, locals) ==
    MakeArgs(session.server_seed, client_seed, locals.nonce, locals.bet_amount,
             locals.is_free_spin,
             IF locals.is_free_spin THEN session.free_spins_remaining ELSE 0,
             IF locals.is_free_spin THEN session.free_spin_multipliers ELSE <<>>,
             <<FALSE, FALSE>>, <<>>)

\* api/main.py:838-851 and 593-608: the nonce and the free-spin state after the spin.
SessionAfterSpin(session, r, locals) ==
    LET counted == [session EXCEPT !.nonce = locals.nonce + 1]
    IN  IF r.free_spins_triggered > 0 /\ ~locals.is_free_spin
        THEN [counted EXCEPT !.free_spins_remaining = r.free_spins_remaining,
                             !.free_spin_bet_amount = locals.bet_amount,
                             !.free_spin_multipliers = get_multiplier_grid(r.final_multipliers)]
        ELSE IF locals.is_free_spin
        THEN IF r.free_spins_remaining <= 0
             THEN [counted EXCEPT !.free_spins_remaining = r.free_spins_remaining,
                                  !.free_spin_multipliers = <<>>,
                                  !.free_spin_bet_amount = 0]
             ELSE [counted EXCEPT !.free_spins_remaining = r.free_spins_remaining,
                                  !.free_spin_multipliers =
                                      get_multiplier_grid(r.final_multipliers)]
        ELSE counted

spinVars == <<args, rng, symbols, multipliers, initial_grid, events, free_spins_triggered,
              total_payout, tumble_count, max_multiplier_seen, clusters,
              all_winning_positions, wild_positions_in_clusters, jackpot_won,
              jackpot_amount, result>>

\* api/main.py:742-754
CreateSessionEndpoint ==
    /\ pc = "idle"
    /\ caller.kind = "none"
    /\ \E server_seed \in SessionSeeds :
          LET session == create_session(server_seed)
          IN  /\ caller' = SessionCaller(session, {}, 1, "none", NoLocals)
              /\ response' = SessionResponse(session)
    /\ UNCHANGED <<pc, memo, spinVars>>

\* api/main.py:757-767
GetSessionEndpoint ==
    /\ pc = "idle"
    /\ HasSession
    /\ caller.handled < MaxRequests
    /\ caller' = [caller EXCEPT !.handled = @ + 1]
    /\ response' = SessionResponse(caller.session)
    /\ UNCHANGED <<pc, memo, spinVars>>

\* api/main.py:904-914
GetSessionHistory ==
    /\ pc = "idle"
    /\ HasSession
    /\ caller.handled < MaxRequests
    /\ caller' = [caller EXCEPT !.handled = @ + 1]
    /\ response' = [kind |-> "history", totalBets |-> Len(caller.session.history),
                    history |-> caller.session.history]
    /\ UNCHANGED <<pc, memo, spinVars>>

\* api/main.py:770-787: the seed is replaced, and the one it replaces is returned.
RotateServerSeed ==
    /\ pc = "idle"
    /\ HasSession
    /\ caller.handled < MaxRequests
    /\ \E new_seed \in SessionSeeds \ (caller.retired \cup {caller.session.server_seed}) :
          LET old_seed == caller.session.server_seed
              old_hash == caller.session.server_seed_hash
              session == [caller.session EXCEPT !.server_seed = new_seed,
                                                !.server_seed_hash = hash_server_seed(new_seed),
                                                !.nonce = 0]
          IN  /\ caller' = [caller EXCEPT !.session = session,
                                          !.retired = @ \cup {old_seed},
                                          !.handled = @ + 1]
              /\ response' = [kind |-> "rotate", revealedServerSeed |-> old_seed,
                              revealedServerSeedHash |-> old_hash,
                              newServerSeedHash |-> session.server_seed_hash]
    /\ UNCHANGED <<pc, memo, spinVars>>

\* A handler up to its call of run_spin.
SpinRequest(endpoint, session, client_seed, locals) ==
    /\ Enter(PlayArgs(session, client_seed, locals))
    /\ caller' = SessionCaller(session, RetiredNow, HandledNow + 1, endpoint, locals)
    /\ UNCHANGED <<memo, response>>

\* api/main.py:791-828
PlayLegacy ==
    /\ pc = "idle"
    /\ HandledNow < MaxRequests
    /\ \E session \in SessionsNow, client_seed \in SessionClientSeeds :
          SpinRequest("play_legacy", session, client_seed, PlayLocals(session, UnitBet))

\* api/main.py:830-882
PlayLegacyReturn ==
    /\ pc = "done"
    /\ HasSession
    /\ caller.endpoint = "play_legacy"
    /\ LET locals == caller.locals
           session == SessionAfterSpin(caller.session, result, locals)
           entry == [nonce |-> locals.nonce, clientSeed |-> args.client_seed,
                     betAmount |-> locals.bet_amount,
                     payoutMultiplier |-> result.payout_multiplier,
                     isFreeSpin |-> locals.is_free_spin,
                     freeSpinsTriggered |-> result.free_spins_triggered,
                     jackpotWon |-> result.jackpot_won]
       IN  /\ caller' = [caller EXCEPT !.session = [session EXCEPT !.history = Append(@, entry)],
                                       !.endpoint = "none", !.locals = NoLocals]
           /\ response' = [kind |-> "play_legacy",
                           payoutMultiplier |-> result.payout_multiplier,
                           events |-> result.events,
                           initialGrid |-> result.initial_grid,
                           finalGrid |-> result.final_grid,
                           finalMultipliers |-> get_multiplier_grid(result.final_multipliers),
                           tumbleCount |-> result.tumble_count,
                           maxMultiplier |-> result.max_multiplier,
                           seedInfo |-> SeedData_to_dict(result.seed_data),
                           nonce |-> locals.nonce,
                           freeSpinsTriggered |-> result.free_spins_triggered,
                           freeSpinsRemaining |-> result.free_spins_remaining,
                           isFreeSpin |-> locals.is_free_spin,
                           jackpotWon |-> result.jackpot_won,
                           jackpotAmount |-> result.jackpot_amount]
    /\ pc' = "idle"
    /\ UNCHANGED <<memo, spinVars>>

\* api/main.py:522-571; get_session: the session must exist.
WalletPlay ==
    /\ pc = "idle"
    /\ HasSession
    /\ caller.handled < MaxRequests
    /\ \E client_seed \in SessionClientSeeds :
          SpinRequest("wallet_play", caller.session, client_seed,
                      PlayLocals(caller.session, UnitBet))

\* api/main.py:573-625: the round object returned has the events, not the seed information
\* kept with the round.
WalletPlayReturn ==
    /\ pc = "done"
    /\ HasSession
    /\ caller.endpoint = "wallet_play"
    /\ LET locals == caller.locals
           session == SessionAfterSpin(caller.session, result, locals)
           entry == [nonce |-> locals.nonce, betAmount |-> locals.bet_amount,
                     isFreeSpin |-> locals.is_free_spin]
       IN  /\ caller' = [caller EXCEPT !.session = [session EXCEPT !.history = Append(@, entry)],
                                       !.endpoint = "none", !.locals = NoLocals]
           /\ response' = [kind |-> "wallet_play",
                           round |-> [payoutMultiplier |-> result.payout_multiplier,
                                      state |-> result.events,
                                      betAmount |-> locals.bet_amount,
                                      mode |-> IF locals.is_free_spin THEN "free_spin" ELSE "base"]]
    /\ pc' = "idle"
    /\ UNCHANGED <<memo, spinVars>>

\* api/main.py:939-968 and 1010-1016, bonus "free_spins_12": no spin, twelve free spins on a
\* grid of multipliers 2; refused during free spins.
BuyFreeSpins ==
    /\ pc = "idle"
    /\ HandledNow < MaxRequests
    /\ \E session \in SessionsNow :
          IF session.free_spins_remaining > 0
          THEN /\ caller' = SessionCaller(session, RetiredNow, HandledNow + 1, "none", NoLocals)
               /\ response' = [kind |-> "error", code |-> "ERR_VAL"]
          ELSE /\ caller' = SessionCaller(
                                [session EXCEPT !.free_spins_remaining = 12,
                                                !.free_spin_bet_amount = UnitBet,
                                                !.free_spin_multipliers =
                                                    UniformGrid(GHOST_SPOT_BASE)],
                                RetiredNow, HandledNow + 1, "none", NoLocals)
               /\ response' = [kind |-> "buy_bonus", success |-> TRUE,
                               featureActivated |-> "free_spins_enhanced",
                               initialResult |-> <<>>]
    /\ UNCHANGED <<pc, memo, spinVars>>

\* api/main.py:939-960 and 986-993, bonus "wild_grid": a base spin at the session's nonce.
BuyWildBoost ==
    /\ pc = "idle"
    /\ HandledNow < MaxRequests
    /\ \E session \in SessionsNow, client_seed \in SessionClientSeeds :
          IF session.free_spins_remaining > 0
          THEN /\ caller' = SessionCaller(session, RetiredNow, HandledNow + 1, "none", NoLocals)
               /\ response' = [kind |-> "error", code |-> "ERR_VAL"]
               /\ UNCHANGED <<pc, memo, spinVars>>
          ELSE SpinRequest("buy_bonus", session, client_seed,
                           [is_free_spin |-> FALSE, nonce |-> session.nonce,
                            bet_amount |-> UnitBet])

\* api/main.py:994-1016: initialResult is result.to_dict(); the free-spin state of the
\* session is left as it is.
BuyWildBoostReturn ==
    /\ pc = "done"
    /\ HasSession
    /\ caller.endpoint = "buy_bonus"
    /\ caller' = [caller EXCEPT !.session.nonce = caller.locals.nonce + 1,
                                !.endpoint = "none", !.locals = NoLocals]
    /\ response' = [kind |-> "buy_bonus", success |-> TRUE, featureActivated |-> "wild_boost",
                    initialResult |-> <<SpinResult_to_dict(result)>>]
    /\ pc' = "idle"
    /\ UNCHANGED <<memo, spinVars>>

NextSession ==
    \/ CreateSessionEndpoint
    \/ GetSessionEndpoint
    \/ GetSessionHistory
    \/ RotateServerSeed
    \/ PlayLegacy
    \/ PlayLegacyReturn
    \/ WalletPlay
    \/ WalletPlayReturn
    \/ BuyFreeSpins
    \/ BuyWildBoost
    \/ BuyWildBoostReturn
    \/ Step

SpecSession == Init /\ [][NextSession]_vars

(***************************************************************************)
(* gamestate.py: the methods of GridState, called on grids of their own    *)
(***************************************************************************)
\* Outside a window the grids hold two regular symbols as a checkerboard.
Background(pos) == IF (pos[1] + pos[2]) % 2 = 0 THEN "HC" ELSE "HS"

\* The grid that holds f in a window and the checkerboard outside it.
GridOver(window, f) ==
    [pos \in Cells |-> IF pos \in window THEN f[pos] ELSE Background(pos)]

\* Three rows of three cells holding two regular symbols and wilds.
FinderWindow == {pos \in Cells : pos[1] <= 2 /\ pos[2] <= 2}
FinderValues == {"HK", "HW", WILD}

\* Two rows of three cells holding also scatters and empty cells.
ScatterWindow == {pos \in Cells : pos[1] <= 1 /\ pos[2] <= 2}
ScatterValues == {"HK", WILD, SCATTER, None}

\* Two columns in which every cell is empty or holds the symbol of its place, the ten
\* regular symbols being all different.
ColumnWindow == {pos \in Cells : pos[2] <= 1}
PlaceSymbol(pos) == SYMBOLS_LIST[3 + pos[1] + GRID_ROWS * pos[2]]
ColumnGrid(kept) ==
    [pos \in Cells |-> IF pos \in ColumnWindow
                       THEN (IF pos \in kept THEN PlaceSymbol(pos) ELSE None)
                       ELSE Background(pos)]

\* The four cells of a corner holding wilds or a regular symbol, the four cells around
\* them holding scatters, nothing or the regular symbol.
CornerWindow == {pos \in Cells : pos[1] <= 1 /\ pos[2] <= 1}
CornerRing == {<<0, 2>>, <<1, 2>>, <<2, 0>>, <<2, 1>>}
CornerGrid(f, g) ==
    [pos \in Cells |-> IF pos \in CornerWindow THEN f[pos]
                       ELSE IF pos \in CornerRing THEN g[pos]
                       ELSE Background(pos)]

\* The grids the methods are called on: one of the four families above.
Grids(grid) ==
    \/ \E f \in [FinderWindow -> FinderValues] : grid = GridOver(FinderWindow, f)
    \/ \E f \in [ScatterWindow -> ScatterValues] : grid = GridOver(ScatterWindow, f)
    \/ \E kept \in SUBSET ColumnWindow : grid = ColumnGrid(kept)
    \/ \E f \in [CornerWindow -> {WILD, "HK"}], g \in [CornerRing -> {SCATTER, None, "HK"}] :
           grid = CornerGrid(f, g)

InitGrids ==
    /\ pc = "grid"
    /\ args = NoArgs
    /\ caller = [kind |-> "none"]
    /\ memo = <<>>
    /\ response = NoResponse
    /\ rng = NoRng
    /\ Grids(symbols)
    /\ multipliers = [pos \in Cells |-> INITIAL_MULTIPLIER]
    /\ initial_grid = <<>>
    /\ events = <<>>
    /\ free_spins_triggered = 0
    /\ total_payout = 0
    /\ tumble_count = 0
    /\ max_multiplier_seen = 1
    /\ clusters = <<>>
    /\ all_winning_positions = <<>>
    /\ wild_positions_in_clusters = <<>>
    /\ jackpot_won = None
    /\ jackpot_amount = 0
    /\ result = NoResult

\* gamestate.py:197-237: grid_state.find_all_clusters(); the clusters returned are kept.
CallFindAllClusters ==
    /\ pc = "grid"
    /\ clusters' = find_all_clusters([symbols |-> symbols, multipliers |-> multipliers])
    /\ pc' = "found"
    /\ UNCHANGED <<args, callVars, rng, gridVars, initial_grid, events, tallyVars,
                   all_winning_positions, wild_positions_in_clusters, jackpotVars, result>>

\* gamestate.py:485-527: grid_state.apply_gravity(), called as run_spin calls it, on a grid
\* with empty cells; the movements returned are kept.
CallApplyGravity ==
    /\ pc = "grid"
    /\ get_empty_positions(symbols) # <<>>
    /\ LET g == apply_gravity(symbols)
       IN  /\ symbols' = g.symbols
           /\ result' = [returned |-> TRUE, movements |-> g.movements]
    /\ pc' = "fallen"
    /\ UNCHANGED <<args, callVars, rng, multipliers, initial_grid, events, tallyVars,
                   loopVars, jackpotVars>>

NextGrids ==
    \/ CallFindAllClusters
    \/ CallApplyGravity

SpecGrids == InitGrids /\ [][NextGrids]_vars

(***************************************************************************)
(* gamestate.py: run_bonus_trigger_spin                                    *)
(***************************************************************************)
\* random.seed(f"{server_seed}{client_seed}{nonce}") and random.sample(all_positions, k):
\* distinct positions that the three seeds select.  The sample of 4 begins with the
\* sample of 3, since the generator draws the positions one after the other.
Samples == <<
    << <<0, 5>>, <<3, 1>>, <<4, 4>>, <<1, 0>> >>,
    << <<4, 2>>, <<3, 2>>, <<0, 0>>, <<0, 4>> >>,
    << <<1, 2>>, <<2, 5>>, <<3, 3>>, <<0, 1>> >>
>>

NumSamples == Len(Samples)

SampleOf(server_seed, client_seed, nonce) ==
    Samples[((server_seed + client_seed + nonce) % NumSamples) + 1]

py_random_sample(server_seed, client_seed, nonce, scatter_count) ==
    SubSeq(SampleOf(server_seed, client_seed, nonce), 1, scatter_count)

\* gamestate.py:972-977: "if grid_state.symbols[row][col] == Symbol.SCATTER:
\* grid_state.symbols[row][col] = rng.get_symbol(free_spin_mode=True)", cell k onwards.
RECURSIVE replace_scatters(_, _, _)
RECURSIVE replace_next(_, _, _)
replace_next(d, syms, k) ==
    replace_scatters([syms EXCEPT ![CellAt(k)] = d.symbol], d.rng, k + 1)

replace_scatters(syms, g, k) ==
    IF k > GRID_ROWS * GRID_COLS
    THEN [symbols |-> syms, rng |-> g]
    ELSE IF syms[CellAt(k)] = SCATTER
    THEN replace_next(get_symbol(g, TRUE, FALSE, FALSE), syms, k)
    ELSE replace_scatters(syms, g, k + 1)

\* gamestate.py:985-986: "for row, col in scatter_positions: ... = Symbol.SCATTER"
place_scatters(syms, scatter_positions) ==
    [pos \in Cells |-> IF InSeq(pos, scatter_positions) THEN SCATTER ELSE syms[pos]]

\* gamestate.py:988-1035: the two events and the SpinResult.
bonus_result(g, grid_state, final_grid, scatter_positions, scatter_count) ==
    LET reveal == [type |-> "reveal", positions |-> AllPositions,
                   symbols |-> [k \in 1..(GRID_ROWS * GRID_COLS) |->
                                   final_grid[CellAt(k)[1] + 1][CellAt(k)[2] + 1]]]
        awarded == table_get(SCATTER_FREE_SPINS, Min(scatter_count, SCATTER_CAP),
                             SCATTER_FREE_SPINS[SCATTER_CAP])
        trigger == [type |-> "free_spins_trigger", scatterCount |-> scatter_count,
                    positions |-> scatter_positions, freeSpinsAwarded |-> awarded,
                    isRetrigger |-> FALSE, isBonusBuy |-> TRUE]
    IN  [returned |-> TRUE, payout_multiplier |-> 0, events |-> <<reveal, trigger>>,
         initial_grid |-> final_grid, final_grid |-> final_grid,
         final_multipliers |-> grid_state.multipliers,
         tumble_count |-> 0, max_multiplier |-> 1,
         seed_data |-> [server_seed |-> g.server_seed, client_seed |-> g.client_seed,
                        nonce |-> g.nonce],
         free_spins_triggered |-> awarded, free_spins_remaining |-> awarded,
         is_free_spin |-> FALSE, jackpot_won |-> None, jackpot_amount |-> 0]

\* gamestate.py:942-1035
bonus_spin_on(gen, scatter_positions, scatter_count) ==
    LET grid_state == GridState(gen.grid)
        replaced == replace_scatters(grid_state.symbols, gen.rng, 1)
        placed == place_scatters(replaced.symbols, scatter_positions)
    IN  bonus_result(replaced.rng, grid_state, get_symbol_grid(placed), scatter_positions,
                     scatter_count)

run_bonus_trigger_spin(server_seed, client_seed, nonce, bet_amount, scatter_count) ==
    bonus_spin_on(generate_grid(create_rng(server_seed, client_seed, nonce), FALSE, FALSE, FALSE),
                  py_random_sample(server_seed, client_seed, nonce, scatter_count),
                  scatter_count)

\* The calls of run_bonus_trigger_spin: the seeds, the nonce, a bet and the 3 or 4
\* scatters bonus_trigger_spin asks for (api/main.py:1031).
BonusSeeds == 1..3
BonusBets == {1, UnitBet, 2 * UnitBet}
BonusScatterCounts == {SCATTER_TRIGGER_MIN, SCATTER_TRIGGER_MIN + 1}

CallBonusTriggerSpin ==
    /\ pc = "idle"
    /\ \E server_seed \in BonusSeeds, client_seed \in ClientSeeds, nonce \in Nonces,
          bet_amount \in BonusBets, scatter_count \in BonusScatterCounts :
          /\ args' = [server_seed |-> server_seed, client_seed |-> client_seed,
                      nonce |-> nonce, bet_amount |-> bet_amount,
                      scatter_count |-> scatter_count]
          /\ result' = run_bonus_trigger_spin(server_seed, client_seed, nonce, bet_amount,
                                              scatter_count)
    /\ pc' = "landed"
    /\ UNCHANGED <<callVars, rng, gridVars, initial_grid, events, tallyVars, loopVars,
                   jackpotVars>>

NextBonus == CallBonusTriggerSpin

SpecBonus == Init /\ [][NextBonus]_vars

(***************************************************************************)
(* api/main.py: /jackpot/info                                              *)
(***************************************************************************)
\* MIN_BET_FLOAT = 0.10 and MAX_BET_FLOAT = 100.0 (game_config.py), in tenths.
MIN_BET_FLOAT == 1
MAX_BET_FLOAT == 1000

\* PlayRequest.validate_amount (api/main.py:161-169) takes amounts from MIN_BET to
\* MAX_BET * 10 in steps of STEP_BET: as floats, in tenths, the bets 0.1 to 1000.0.
ApiBets == MIN_BET_FLOAT..(MAX_BET_FLOAT * 10)

\* get_jackpot_info (api/main.py:1123-1136): what it says of one tier; minBetFloat in
\* tenths.
get_jackpot_info(tier_id) ==
    [currentAmountFloat |-> JACKPOT_TIERS[tier_id].seed_amount,
     minBetFloat |-> JACKPOT_TIERS[tier_id].min_bet_multiplier * MIN_BET_FLOAT]

(***************************************************************************)
(* api/main.py: the balance, the nonce, the free spins and the rounds of   *)
(* one session                                                             *)
(***************************************************************************)
\* The requests of a session that are counted, and the free spins played one after the
\* other through play_legacy at the session's nonce, which are not.
MaxCalls == 2
MaxFreeSpins == 12

\* Integer amounts are carried in thousands of the Stake unit (thousandths of a currency
\* unit), float amounts in tenths of a currency unit as for run_spin.
\* game_config.py: to_stake_amount, from_stake_amount
to_stake_amount(amount_float) == amount_float * CentUnits
from_stake_amount(amount_int) == amount_int \div CentUnits

\* payout_float = result.payout_multiplier * bet_amount_float; payout_int =
\* to_stake_amount(payout_float) (api/main.py:574-575, 832-833): the multiplier is a whole
\* number of hundredths carried in per-bet units and the bet is in tenths, so the product
\* of the hundredths and the tenths is the integer amount.
payout_amount(payout_multiplier, bet_amount_float) ==
    (payout_multiplier \div CentUnits) * bet_amount_float

\* game_config.py:299-348
BONUS_BUY_OPTIONS ==
    [id \in {"free_spins_8", "free_spins_12", "wolf_burst", "wild_grid", "max_multi_start",
             "jackpot_chance"} |->
        CASE id = "free_spins_8" -> [cost_multiplier |-> 100, feature |-> "free_spins"]
          [] id = "free_spins_12" -> [cost_multiplier |-> 200, feature |-> "free_spins_enhanced"]
          [] id = "wolf_burst" -> [cost_multiplier |-> 10, feature |-> "wolf_burst"]
          [] id = "wild_grid" -> [cost_multiplier |-> 10, feature |-> "wild_boost"]
          [] id = "max_multi_start" -> [cost_multiplier |-> 20, feature |-> "multiplier_start"]
          [] id = "jackpot_chance" -> [cost_multiplier |-> 5, feature |-> "jackpot_boost"]]

\* api/main.py:1090-1099
BOOSTS ==
    [boostType \in {"scatter_boost", "wild_boost"} |->
        IF boostType = "scatter_boost"
        THEN [cost_multiplier |-> 2, boost_spins |-> 10, session_key |-> "scatter_boost_spins"]
        ELSE [cost_multiplier |-> 5, boost_spins |-> 5, session_key |-> "wild_boost_spins"]]

\* generate_server_seed: the seed of a new session, and the seed a rotation installs.
CreationSeeds == {9}
RotationSeeds == {3}
WalletClientSeeds == {1}

\* The requests. PlayRequest.validate_amount (api/main.py:161-169) takes the amount 1.0;
\* betAmount of the other requests is a float that is not validated (206-213, 278-300);
\* request.nonce of play_legacy is None (<<>>) or a nonce n (<<n>>).
WalletAmounts == {to_stake_amount(UnitBet)}
LegacyRequests ==
    {<<UnitBet, <<>> >>, <<UnitBet, <<0>> >>, <<-UnitBet, <<>> >>, <<20000 * UnitBet, <<>> >>}
BonusRequests ==
    {<<"free_spins_8", 100 * UnitBet>>,
     <<"free_spins_12", UnitBet>>, <<"free_spins_12", 100 * UnitBet>>,
     <<"wild_grid", UnitBet>>, <<"wild_grid", -UnitBet>>, <<"jackpot_chance", -UnitBet>>}
TriggerRequests == {<<"free_spins_8", UnitBet>>}
BoostRequests ==
    {<<"scatter_boost", UnitBet>>, <<"wild_boost", -UnitBet>>, <<"wild_boost", 2000 * UnitBet>>}

\* create_session (api/main.py:373-400) with the balance, the active round and the boosts;
\* None is 0 for active_round_id and <<>> for free_spin_multipliers.
create_wallet_session(server_seed) ==
    [server_seed |-> server_seed, nonce |-> 0, balance |-> to_stake_amount(10000 * UnitBet),
     active_round_id |-> 0, free_spins_remaining |-> 0, free_spin_multipliers |-> <<>>,
     free_spin_bet_amount |-> 0, scatter_boost_spins |-> 0, wild_boost_spins |-> 0]

\* What the model keeps: the session, the status of each round in the order of creation
\* (rounds, api/main.py:354), the seed and the nonce of every spin computed, the seeds the
\* session has had, the numbers of requests, and the request in progress with its locals.
WalletCaller(session, round_status, spins, seeds, calls, free_spins, endpoint, locals) ==
    [kind |-> "wallet", session |-> session, rounds |-> round_status, spins |-> spins,
     seeds |-> seeds, calls |-> calls, free_spins |-> free_spins, endpoint |-> endpoint,
     locals |-> locals]

NoWalletLocals == [is_free_spin |-> FALSE, nonce |-> 0, bet_amount_int |-> 0,
                   bet_amount_float |-> 0]

HasWallet == caller.kind = "wallet"

\* A request that returns without a spin: the session it leaves and its response.
Answer(session, round_status, resp) ==
    /\ caller' = [caller EXCEPT !.session = session, !.rounds = round_status,
                                !.calls = @ + 1]
    /\ response' = resp
    /\ UNCHANGED <<pc, memo, spinVars>>

StakeError(code, endpoint) == [kind |-> "error", code |-> code, endpoint |-> endpoint]

\* A handler up to its call of run_spin.
WalletSpin(endpoint, session, round_status, client_seed, locals, boosts, counted) ==
    /\ Enter(MakeArgs(session.server_seed, client_seed, locals.nonce, locals.bet_amount_float,
                      locals.is_free_spin,
                      IF locals.is_free_spin THEN session.free_spins_remaining ELSE 0,
                      IF locals.is_free_spin THEN session.free_spin_multipliers ELSE <<>>,
                      boosts, <<>>))
    /\ caller' = [caller EXCEPT !.session = session, !.rounds = round_status,
                                !.spins = Append(@, <<session.server_seed, locals.nonce>>),
                                !.calls = IF counted THEN @ + 1 ELSE @,
                                !.free_spins = IF counted THEN @ ELSE @ + 1,
                                !.endpoint = endpoint, !.locals = locals]
    /\ UNCHANGED <<memo, response>>

\* An update after the spin that keeps the grid and the bet of the last free spin.
WalletAfterSpinKeepingGrid(session, r, locals) ==
    LET payout_int == payout_amount(r.payout_multiplier, locals.bet_amount_float)
        counted == [session EXCEPT !.balance = @ + payout_int, !.nonce = locals.nonce + 1]
    IN  IF r.free_spins_triggered > 0 /\ ~locals.is_free_spin
        THEN [counted EXCEPT !.free_spins_remaining = r.free_spins_remaining,
                             !.free_spin_bet_amount = locals.bet_amount_int,
                             !.free_spin_multipliers = get_multiplier_grid(r.final_multipliers)]
        ELSE IF locals.is_free_spin
        THEN [counted EXCEPT !.free_spins_remaining = r.free_spins_remaining,
                             !.free_spin_multipliers = get_multiplier_grid(r.final_multipliers)]
        ELSE counted

\* api/main.py:577-579, 593-608 and 835-851: the credit, the nonce and the free-spin state
\* after the spin.
WalletAfterSpin(session, r, locals) ==
    LET payout_int == payout_amount(r.payout_multiplier, locals.bet_amount_float)
        counted == [session EXCEPT !.balance = @ + payout_int, !.nonce = locals.nonce + 1]
    IN  IF r.free_spins_triggered > 0 /\ ~locals.is_free_spin
        THEN [counted EXCEPT !.free_spins_remaining = r.free_spins_remaining,
                             !.free_spin_bet_amount = locals.bet_amount_int,
                             !.free_spin_multipliers = get_multiplier_grid(r.final_multipliers)]
        ELSE IF locals.is_free_spin
        THEN IF r.free_spins_remaining <= 0
             THEN [counted EXCEPT !.free_spins_remaining = r.free_spins_remaining,
                                  !.free_spin_multipliers = <<>>,
                                  !.free_spin_bet_amount = 0]
             ELSE [counted EXCEPT !.free_spins_remaining = r.free_spins_remaining,
                                  !.free_spin_multipliers =
                                      get_multiplier_grid(r.final_multipliers)]
        ELSE counted

\* api/main.py:742-754: the session is created.
create_session_endpoint ==
    /\ pc = "idle"
    /\ caller.kind = "none"
    /\ \E server_seed \in CreationSeeds :
          caller' = WalletCaller(create_wallet_session(server_seed), <<>>, <<>>, {server_seed},
                                 0, 0, "none", NoWalletLocals)
    /\ response' = [kind |-> "session"]
    /\ UNCHANGED <<pc, memo, spinVars>>

\* api/main.py:522-571: the balance check, then the free-spin test; create_round
\* (403-431) adds an ACTIVE round and makes it the active round of the session.
wallet_play ==
    /\ pc = "idle"
    /\ HasWallet
    /\ caller.calls < MaxCalls
    /\ \E amount \in WalletAmounts, client_seed \in WalletClientSeeds :
          LET session == caller.session
              is_free_spin == session.free_spins_remaining > 0
              bet_amount_int == IF is_free_spin THEN session.free_spin_bet_amount ELSE amount
              locals == [is_free_spin |-> is_free_spin, nonce |-> session.nonce,
                         bet_amount_int |-> bet_amount_int,
                         bet_amount_float |-> from_stake_amount(bet_amount_int)]
              debited == IF is_free_spin THEN session
                         ELSE [session EXCEPT !.balance = @ - amount]
              round_status == Append(caller.rounds, "ACTIVE")
          IN  IF session.balance < amount
              THEN Answer(session, caller.rounds, StakeError("ERR_IPB", "wallet_play"))
              ELSE WalletSpin("wallet_play",
                              [debited EXCEPT !.active_round_id = Len(round_status)],
                              round_status, client_seed, locals, <<FALSE, FALSE>>, TRUE)

\* api/main.py:573-625
wallet_play_return ==
    /\ pc = "done"
    /\ HasWallet
    /\ caller.endpoint = "wallet_play"
    /\ caller' = [caller EXCEPT !.session = WalletAfterSpin(caller.session, result, caller.locals),
                                !.endpoint = "none", !.locals = NoWalletLocals]
    /\ response' = [kind |-> "wallet_play", roundID |-> caller.session.active_round_id,
                    payoutMultiplier |-> result.payout_multiplier]
    /\ pc' = "idle"
    /\ UNCHANGED <<memo, spinVars>>

\* api/main.py:628-645; complete_round (434-440)
wallet_end_round ==
    /\ pc = "idle"
    /\ HasWallet
    /\ caller.calls < MaxCalls
    /\ LET session == caller.session
       IN  IF session.active_round_id # 0
           THEN Answer([session EXCEPT !.active_round_id = 0],
                       [caller.rounds EXCEPT ![session.active_round_id] = "COMPLETED"],
                       [kind |-> "end_round"])
           ELSE Answer(session, caller.rounds, [kind |-> "end_round"])

\* api/main.py:770-787
rotate_server_seed ==
    /\ pc = "idle"
    /\ HasWallet
    /\ caller.calls < MaxCalls
    /\ \E new_seed \in RotationSeeds \ caller.seeds :
          /\ caller' = [caller EXCEPT !.session.server_seed = new_seed, !.session.nonce = 0,
                                      !.seeds = @ \cup {new_seed}, !.calls = @ + 1]
          /\ response' = [kind |-> "rotate", revealedServerSeed |-> caller.session.server_seed]
    /\ UNCHANGED <<pc, memo, spinVars>>

\* api/main.py:791-828: during free spins the stored bet and no balance check, otherwise
\* the check and the debit; the nonce of the request if it has one.
play_legacy_request(betAmount, request_nonce, client_seed, counted) ==
    LET session == caller.session
        is_free_spin == session.free_spins_remaining > 0
        bet_amount_int == IF is_free_spin THEN session.free_spin_bet_amount
                          ELSE to_stake_amount(betAmount)
        bet_amount_float == IF is_free_spin THEN from_stake_amount(bet_amount_int)
                            ELSE betAmount
        nonce == IF request_nonce # <<>> THEN request_nonce[1] ELSE session.nonce
        locals == [is_free_spin |-> is_free_spin, nonce |-> nonce,
                   bet_amount_int |-> bet_amount_int, bet_amount_float |-> bet_amount_float]
    IN  IF is_free_spin
        THEN WalletSpin("play_legacy", session, caller.rounds, client_seed, locals,
                        <<FALSE, FALSE>>, counted)
        ELSE IF session.balance < bet_amount_int
        THEN Answer(session, caller.rounds, StakeError("ERR_IPB", "play_legacy"))
        ELSE WalletSpin("play_legacy", [session EXCEPT !.balance = @ - bet_amount_int],
                        caller.rounds, client_seed, locals, <<FALSE, FALSE>>, counted)

play_legacy ==
    /\ pc = "idle"
    /\ HasWallet
    /\ caller.calls < MaxCalls
    /\ \E request \in LegacyRequests, client_seed \in WalletClientSeeds :
          play_legacy_request(request[1], request[2], client_seed, TRUE)

\* play_legacy while the session has free spins, at the session's nonce.
play_legacy_free_spin ==
    /\ pc = "idle"
    /\ HasWallet
    /\ caller.session.free_spins_remaining > 0
    /\ caller.free_spins < MaxFreeSpins
    /\ \E client_seed \in WalletClientSeeds :
          play_legacy_request(UnitBet, <<>>, client_seed, FALSE)

\* api/main.py:830-884
play_legacy_return ==
    /\ pc = "done"
    /\ HasWallet
    /\ caller.endpoint = "play_legacy"
    /\ caller' = [caller EXCEPT !.session = WalletAfterSpin(caller.session, result, caller.locals),
                                !.endpoint = "none", !.locals = NoWalletLocals]
    /\ response' = [kind |-> "play_legacy", payoutMultiplier |-> result.payout_multiplier,
                    nonce |-> caller.locals.nonce,
                    freeSpinsRemaining |-> result.free_spins_remaining,
                    isFreeSpin |-> caller.locals.is_free_spin]
    /\ pc' = "idle"
    /\ UNCHANGED <<memo, spinVars>>

\* api/main.py:939-985 and 1000-1016: the features that write only keys no handler reads
\* (wolf_burst, multiplier_start, jackpot_boost) leave the rest of the session as it is;
\* wild_boost runs a base-game spin at the session's nonce (986-993).
buy_bonus ==
    /\ pc = "idle"
    /\ HasWallet
    /\ caller.calls < MaxCalls
    /\ \E request \in BonusRequests, client_seed \in WalletClientSeeds :
          LET session == caller.session
              bonusId == request[1]
              betAmount == request[2]
              bonus == BONUS_BUY_OPTIONS[bonusId]
              cost_float == bonus.cost_multiplier * betAmount
              cost_int == to_stake_amount(cost_float)
              debited == [session EXCEPT !.balance = @ - cost_int]
              bet_amount_int == to_stake_amount(betAmount)
              bought == [kind |-> "buy_bonus", success |-> TRUE, cost |-> cost_float,
                         featureActivated |-> bonus.feature]
          IN  IF session.free_spins_remaining > 0
              THEN Answer(session, caller.rounds, StakeError("ERR_VAL", "buy_bonus"))
              ELSE IF session.balance < cost_int
              THEN Answer(session, caller.rounds, StakeError("ERR_IPB", "buy_bonus"))
              ELSE IF bonus.feature = "free_spins"
              THEN Answer([debited EXCEPT !.free_spins_remaining = 8,
                                          !.free_spin_bet_amount = bet_amount_int,
                                          !.free_spin_multipliers = <<>>],
                          caller.rounds, bought)
              ELSE IF bonus.feature = "free_spins_enhanced"
              THEN Answer([debited EXCEPT !.free_spins_remaining = 12,
                                          !.free_spin_bet_amount = bet_amount_int,
                                          !.free_spin_multipliers =
                                              UniformGrid(GHOST_SPOT_BASE)],
                          caller.rounds, bought)
              ELSE IF bonus.feature = "wild_boost"
              THEN WalletSpin("buy_bonus", debited, caller.rounds, client_seed,
                              [is_free_spin |-> FALSE, nonce |-> session.nonce,
                               bet_amount_int |-> bet_amount_int,
                               bet_amount_float |-> betAmount],
                              <<FALSE, FALSE>>, TRUE)
              ELSE Answer(debited, caller.rounds, bought)

\* api/main.py:994-1016: the nonce and the credit; the free-spin state is left as it is.
buy_bonus_return ==
    /\ pc = "done"
    /\ HasWallet
    /\ caller.endpoint = "buy_bonus"
    /\ LET payout == payout_amount(result.payout_multiplier, caller.locals.bet_amount_float)
       IN  caller' = [caller EXCEPT !.session.nonce = caller.locals.nonce + 1,
                                    !.session.balance = @ + payout,
                                    !.endpoint = "none", !.locals = NoWalletLocals]
    /\ response' = [kind |-> "buy_bonus", success |-> TRUE,
                    cost |-> BONUS_BUY_OPTIONS["wild_grid"].cost_multiplier *
                                 caller.locals.bet_amount_float,
                    featureActivated |-> "wild_boost"]
    /\ pc' = "idle"
    /\ UNCHANGED <<memo, spinVars>>

\* api/main.py:1019-1080: run_bonus_trigger_spin at the session's nonce.
bonus_trigger_spin ==
    /\ pc = "idle"
    /\ HasWallet
    /\ caller.calls < MaxCalls
    /\ \E request \in TriggerRequests, client_seed \in WalletClientSeeds :
          LET session == caller.session
              bonusId == request[1]
              betAmount == request[2]
              bonus == BONUS_BUY_OPTIONS[bonusId]
              scatter_count == IF bonusId = "free_spins_12" THEN 4 ELSE 3
              cost_float == bonus.cost_multiplier * betAmount
              cost_int == to_stake_amount(cost_float)
              nonce == session.nonce
              r == run_bonus_trigger_spin(session.server_seed, client_seed, nonce, betAmount,
                                          scatter_count)
          IN  IF session.free_spins_remaining > 0
              THEN Answer(session, caller.rounds, StakeError("ERR_VAL", "bonus_trigger_spin"))
              ELSE IF session.balance < cost_int
              THEN Answer(session, caller.rounds, StakeError("ERR_IPB", "bonus_trigger_spin"))
              ELSE /\ caller' =
                          [caller EXCEPT
                              !.session =
                                  [session EXCEPT
                                      !.balance = @ - cost_int,
                                      !.nonce = nonce + 1,
                                      !.free_spins_remaining = r.free_spins_triggered,
                                      !.free_spin_bet_amount = to_stake_amount(betAmount),
                                      !.free_spin_multipliers =
                                          IF scatter_count = 4
                                          THEN UniformGrid(GHOST_SPOT_BASE) ELSE <<>>],
                              !.spins = Append(@, <<session.server_seed, nonce>>),
                              !.calls = @ + 1]
                   /\ response' = [kind |-> "bonus_trigger_spin", success |-> TRUE,
                                   cost |-> cost_float, nonce |-> nonce,
                                   freeSpinsTriggered |-> r.free_spins_triggered,
                                   scatterCount |-> scatter_count]
                   /\ UNCHANGED <<pc, memo, spinVars>>

\* An activation that debits the cost without the balance check.
activate_boost_unchecked ==
    /\ pc = "idle"
    /\ HasWallet
    /\ caller.calls < MaxCalls
    /\ \E request \in BoostRequests :
          LET session == caller.session
              boostType == request[1]
              betAmount == request[2]
              boost == BOOSTS[boostType]
              cost_float == boost.cost_multiplier * betAmount
              cost_int == to_stake_amount(cost_float)
              debited == [session EXCEPT !.balance = @ - cost_int]
              boosted == IF boost.session_key = "scatter_boost_spins"
                         THEN [debited EXCEPT !.scatter_boost_spins = @ + boost.boost_spins]
                         ELSE [debited EXCEPT !.wild_boost_spins = @ + boost.boost_spins]
          IN  IF session.free_spins_remaining > 0
              THEN Answer(session, caller.rounds, StakeError("ERR_VAL", "activate_boost"))
              ELSE Answer(boosted, caller.rounds,
                          [kind |-> "activate_boost", success |-> TRUE, cost |-> cost_float,
                           boostType |-> boostType])

\* api/main.py:1083-1120
activate_boost ==
    /\ pc = "idle"
    /\ HasWallet
    /\ caller.calls < MaxCalls
    /\ \E request \in BoostRequests :
          LET session == caller.session
              boostType == request[1]
              betAmount == request[2]
              boost == BOOSTS[boostType]
              cost_float == boost.cost_multiplier * betAmount
              cost_int == to_stake_amount(cost_float)
              debited == [session EXCEPT !.balance = @ - cost_int]
              boosted == IF boost.session_key = "scatter_boost_spins"
                         THEN [debited EXCEPT !.scatter_boost_spins = @ + boost.boost_spins]
                         ELSE [debited EXCEPT !.wild_boost_spins = @ + boost.boost_spins]
          IN  IF session.free_spins_remaining > 0
              THEN Answer(session, caller.rounds, StakeError("ERR_VAL", "activate_boost"))
              ELSE IF session.balance < cost_int
              THEN Answer(session, caller.rounds, StakeError("ERR_IPB", "activate_boost"))
              ELSE Answer(boosted, caller.rounds,
                          [kind |-> "activate_boost", success |-> TRUE, cost |-> cost_float,
                           boostType |-> boostType])

NextWallet ==
    \/ create_session_endpoint
    \/ wallet_play
    \/ wallet_play_return
    \/ wallet_end_round
    \/ rotate_server_seed
    \/ play_legacy
    \/ play_legacy_return
    \/ buy_bonus
    \/ buy_bonus_return
    \/ bonus_trigger_spin
    \/ activate_boost
    \/ Step

SpecWallet == Init /\ [][NextWallet]_vars

\* The requests of a session that buys free spins and plays them.
NextFreeSpins ==
    \/ create_session_endpoint
    \/ buy_bonus
    \/ buy_bonus_return
    \/ bonus_trigger_spin
    \/ wallet_play
    \/ wallet_play_return
    \/ play_legacy_free_spin
    \/ play_legacy_return
    \/ Step

SpecFreeSpins == Init /\ [][NextFreeSpins]_vars

(***************************************************************************)
(* Properties                                                              *)
(***************************************************************************)
\* The number of scatters on the initial grid of the call (once revealed).
InitialScatters ==
    Cardinality({pos \in Cells : initial_grid[pos[1] + 1][pos[2] + 1] = SCATTER})

\* The call has got past the reveal (a call that raised did so before it).
Revealed == pc \notin {"idle", "restore", "reveal", "raised"}

TriggerIndexes == {i \in 1..Len(events) : events[i].type = "free_spins_trigger"}

\* C1: a call of run_spin returns the result that every earlier call with the same
\* arguments returned, in every field, whatever calls were made in between.
Deterministic ==
    pc = "done" => \A i \in 1..Len(memo) : memo[i].args = args => memo[i].result = result

\* A third call repeats the first one after a different second one, and the spin has a win.
DeterministicWitness ==
    /\ pc = "done"
    /\ Len(memo) = 2
    /\ memo[1].args = args
    /\ memo[2].args # args
    /\ memo[1].result = result
    /\ result.tumble_count > 0

\* The iteration ceiling that the specification of the engine gives as its example; the
\* code has none.
MAX_TUMBLE_ITERATIONS == 50

\* C2: the tumble loop never runs more than the configured maximum number of iterations
\* (it aborts with IterationLimitExceeded at the ceiling).
TumbleCeiling == tumble_count <= MAX_TUMBLE_ITERATIONS

\* C3: outside the steps between removal and refill every cell of the grid holds a symbol,
\* and so does every cell of the final_grid returned.
GridComplete ==
    /\ pc \notin {"idle", "gravity", "fill"} => \A pos \in Cells : symbols[pos] # None
    /\ pc = "done" => \A r \in 1..GRID_ROWS, c \in 1..GRID_COLS : result.final_grid[r][c] # ""

\* A spin returned after two tumble iterations, each with a removal and a refill.
GridCompleteWitness ==
    /\ pc = "done"
    /\ result.tumble_count >= 2
    /\ \E i \in 1..Len(events) : events[i].type = "fill"
    /\ \A r \in 1..GRID_ROWS, c \in 1..GRID_COLS : result.final_grid[r][c] # ""

\* C4: no step of a spin lowers the multiplier of a cell, and no cell's multiplier is ever
\* above MAX_MULTIPLIER, in any state and in final_multipliers, for every carry-over grid.
MultipliersMonotoneAndCapped ==
    /\ [](\A pos \in Cells : multipliers[pos] <= MAX_MULTIPLIER)
    /\ [](pc = "done" => \A pos \in Cells : result.final_multipliers[pos] <= MAX_MULTIPLIER)
    /\ [][\A pos \in Cells : multipliers'[pos] >= multipliers[pos]]_vars

\* C5: the payout multiplier returned is at least 0 and at most MAX_WIN_MULTIPLIER.
PayoutBounded ==
    pc = "done" =>
        /\ 0 <= result.payout_multiplier
        /\ result.payout_multiplier <= MAX_WIN_MULTIPLIER * PerBetUnits

\* A spin whose wins add up to more than the cap returns exactly the cap.
PayoutBoundedWitness ==
    /\ pc = "done"
    /\ total_payout > MAX_WIN_MULTIPLIER * PerBetUnits
    /\ result.payout_multiplier = MAX_WIN_MULTIPLIER * PerBetUnits

\* C6: every win event, of every tumble iteration, reports a size and a list of positions
\* of at least MIN_CLUSTER_SIZE.
WinSizes ==
    \A i \in 1..Len(events) :
        events[i].type = "win" =>
            /\ events[i].size >= MIN_CLUSTER_SIZE
            /\ Len(events[i].positions) >= MIN_CLUSTER_SIZE

\* A finished spin of at least two tumble iterations with a win of exactly the minimum
\* size emitted after a refill.
WinSizesWitness ==
    /\ pc = "done"
    /\ tumble_count >= 2
    /\ \E i \in 1..Len(events) :
          /\ events[i].type = "win"
          /\ events[i].size = MIN_CLUSTER_SIZE
          /\ \E j \in 1..(i - 1) : events[j].type = "fill"

\* C7: verify_spin answers is_valid = TRUE exactly when the recomputed payout multiplier
\* and the expected payout differ by less than 0.001; a payout off by 1.0 is rejected.
VerifySpinVerdict ==
    (response.kind = "verify_spin" /\ caller.kind = "verify_spin") =>
        LET d == response.result.payout_multiplier - caller.expected_payout
        IN  /\ response.is_valid <=> (-TOLERANCE < d /\ d < TOLERANCE)
            /\ (d = PerBetUnits \/ d = -PerBetUnits) => ~response.is_valid

\* A winning spin verified against a payout that is off by a little less than the tolerance.
VerifySpinVerdictWitness ==
    /\ response.kind = "verify_spin"
    /\ caller.kind = "verify_spin"
    /\ response.result.payout_multiplier > 0
    /\ caller.expected_payout = response.result.payout_multiplier + (TOLERANCE - 1)
    /\ response.is_valid

\* C8: the /verify endpoint answers isValid = TRUE only when the payout the client was
\* told is within the tolerance of the recomputed one.
EndpointVerdict ==
    response.kind = "verify_result" =>
        LET d == response.payoutMultiplier - caller.claimed
        IN  response.isValid => (-TOLERANCE < d /\ d < TOLERANCE)

\* C9 as stated: a base-game spin with exactly two scatters on the initial grid has no
\* free_spins_trigger event anywhere in its events and returns free_spins_triggered = 0.
NoTriggerAtTwoScatters ==
    (pc = "done" /\ ~args.free_spin_mode /\ InitialScatters = SCATTER_TRIGGER_MIN - 1) =>
        /\ TriggerIndexes = {}
        /\ result.free_spins_triggered = 0

\* C9, amended: a base-game spin with exactly two scatters on the initial grid has no
\* free_spins_trigger event for the initial grid; a trigger follows directly on a fill
\* event, counts at least three scatters and carries the award that is returned, and
\* free_spins_triggered is 0 when there is no such event.
NoInitialTriggerAtTwoScatters ==
    (Revealed /\ ~args.free_spin_mode /\ InitialScatters = SCATTER_TRIGGER_MIN - 1) =>
        /\ \A i \in TriggerIndexes :
              /\ i > 2
              /\ events[i - 1].type = "fill"
              /\ events[i].scatterCount >= SCATTER_TRIGGER_MIN
              /\ events[i].freeSpinsAwarded = free_spins_triggered
        /\ TriggerIndexes = {} <=> free_spins_triggered = 0
        /\ pc = "done" => result.free_spins_triggered = free_spins_triggered

\* Two scatters on the initial grid, a third one arrives with a refill: the spin returns
\* free spins.
NoInitialTriggerAtTwoScattersWitness ==
    /\ pc = "done"
    /\ ~args.free_spin_mode
    /\ InitialScatters = SCATTER_TRIGGER_MIN - 1
    /\ result.free_spins_triggered > 0
    /\ TriggerIndexes # {}

\* C10: with n >= 3 scatters on the initial grid the event after the reveal is a
\* free_spins_trigger whose award, also returned as free_spins_triggered, is the entry for
\* min(n, 6) of SCATTER_FREE_SPINS in the base game (isRetrigger false) and of
\* SCATTER_RETRIGGER in free-spin mode (isRetrigger true).
InitialTriggerAward ==
    (Revealed /\ InitialScatters >= SCATTER_TRIGGER_MIN) =>
        LET n == IF InitialScatters < SCATTER_CAP THEN InitialScatters ELSE SCATTER_CAP
            entry == IF args.free_spin_mode THEN SCATTER_RETRIGGER[n] ELSE SCATTER_FREE_SPINS[n]
        IN  /\ events[1].type = "reveal"
            /\ events[2].type = "free_spins_trigger"
            /\ events[2].scatterCount = InitialScatters
            /\ events[2].freeSpinsAwarded = entry
            /\ events[2].isRetrigger = args.free_spin_mode
            /\ free_spins_triggered = entry
            /\ pc = "done" => result.free_spins_triggered = entry

\* A free spin with four scatters on its initial grid has returned.
InitialTriggerAwardWitness ==
    /\ pc = "done"
    /\ args.free_spin_mode
    /\ InitialScatters > SCATTER_TRIGGER_MIN
    /\ result.free_spins_triggered = SCATTER_RETRIGGER[InitialScatters]
    /\ SCATTER_RETRIGGER[InitialScatters] # SCATTER_FREE_SPINS[InitialScatters]

\* The position of a generator in its byte stream.
StreamPosition(g) == g.hash_index * HASH_BYTES + g.byte_index

\* The places in JACKPOT_ORDER of the tiers whose minimum eligible bet is within the bet.
EligiblePlaces(bet_amount) ==
    {i \in 1..Len(JACKPOT_ORDER) :
        bet_amount >= JACKPOT_TIERS[JACKPOT_ORDER[i]].min_bet_multiplier * MIN_BET * 10}

PlaceOf(tier_id) == CHOOSE i \in 1..Len(JACKPOT_ORDER) : JACKPOT_ORDER[i] = tier_id

\* The eligible places check_jackpot gets to: all of them, or those down to the tier won.
PlacesConsidered(bet_amount, won) ==
    {i \in EligiblePlaces(bet_amount) : won = None \/ i <= PlaceOf(won)}

\* C11: check_jackpot draws once for each eligible tier it considers and not at all for a
\* tier whose minimum eligible bet is above the bet: the generator moves by one float per
\* eligible tier considered (not at all when no tier is eligible), and the tier won is an
\* eligible one.
IneligibleTiersNotRolled ==
    [][(Jackpot /\ ~args.free_spin_mode) =>
          /\ StreamPosition(rng') - StreamPosition(rng) =
                 FLOAT_BYTES * Cardinality(PlacesConsidered(args.bet_amount, jackpot_won'))
          /\ EligiblePlaces(args.bet_amount) = {} => rng' = rng
          /\ jackpot_won' # None => PlaceOf(jackpot_won') \in EligiblePlaces(args.bet_amount)]_vars

\* A bet that reaches the mini tier only, on a stream whose first roll after the spin is
\* below every trigger chance: the bytes a higher tier would have used go to the mini tier.
IneligibleTiersNotRolledWitness ==
    /\ pc = "return"
    /\ args.bet_amount = MIN_BET * 10
    /\ EligiblePlaces(args.bet_amount) = {PlaceOf("mini")}
    /\ jackpot_won = "mini"
    /\ tumble_count = 0

SeqSet(xs) == {xs[i] : i \in 1..Len(xs)}

\* The events an action appends to the event log.
Appended == SubSeq(events', Len(events) + 1, Len(events'))

Distance(a, b) == IF a < b THEN b - a ELSE a - b

\* A cell and those of its 8 neighbours that lie inside the grid.
Neighbourhood(wild_pos) ==
    {pos \in Cells : Distance(pos[1], wild_pos[1]) <= 1 /\ Distance(pos[2], wild_pos[2]) <= 1}

\* 4 cells at a corner, 6 at an edge, 9 inside.
NeighbourhoodSize(wild_pos) ==
    (IF wild_pos[1] \in {0, GRID_ROWS - 1} THEN 2 ELSE 3) *
    (IF wild_pos[2] \in {0, GRID_COLS - 1} THEN 2 ELSE 3)

\* The wheel values of the explosions that reach a cell.
WheelsOver(explosions, pos) ==
    {explosions[i].wheelMultiplier :
        i \in {j \in 1..Len(explosions) : pos \in Neighbourhood(explosions[j].wildPosition)}}

\* C12, as stated: resolving the wilds changes the multiplier of every cell of their
\* neighbourhoods (own cell and neighbours inside the grid) and of no other cell.
WildChangesNeighbourhood ==
    [][WildExplosions =>
          {pos \in Cells : multipliers'[pos] # multipliers[pos]} =
          UNION {Neighbourhood(wild_positions_in_clusters[i]) :
                    i \in 1..Len(wild_positions_in_clusters)}]_vars

\* C12, amended: resolving a wild writes max(current, wheel value) to the wild's own cell and
\* to exactly those of its 8 neighbours that lie inside the grid (3 at a corner, 5 at an edge,
\* 8 inside), so a cell already at or above the wheel value keeps its multiplier; no other
\* cell changes; affectedCells and cellDetails list exactly these cells, each once, and every
\* index used is inside the grid.
WildWritesNeighbourhood ==
    [][WildExplosions =>
          /\ Len(Appended) = Len(wild_positions_in_clusters)
          /\ \A i \in 1..Len(Appended) :
                /\ Appended[i].type = "wild_explosion"
                /\ Appended[i].wildPosition = wild_positions_in_clusters[i]
                /\ SeqSet(Appended[i].affectedCells) = Neighbourhood(Appended[i].wildPosition)
                /\ Len(Appended[i].affectedCells) = NeighbourhoodSize(Appended[i].wildPosition)
                /\ Appended[i].affectedCells[1] = Appended[i].wildPosition
                /\ SeqSet(Appended[i].affectedCells) \subseteq Cells
                /\ [k \in 1..Len(Appended[i].cellDetails) |-> Appended[i].cellDetails[k].position]
                       = Appended[i].affectedCells
          /\ \A pos \in Cells :
                /\ multipliers'[pos] >= multipliers[pos]
                /\ \A w \in WheelsOver(Appended, pos) : multipliers'[pos] >= w
                /\ multipliers'[pos] \in {multipliers[pos]} \cup WheelsOver(Appended, pos)]_vars

\* A wild at a corner or an edge was resolved (fewer than 9 cells listed) and one of the
\* listed cells kept the multiplier it had.
WildWritesNeighbourhoodWitness ==
    /\ pc = "wins"
    /\ \E i \in 1..Len(events) :
          /\ events[i].type = "wild_explosion"
          /\ Len(events[i].affectedCells) < 9
          /\ \E k \in 1..Len(events[i].cellDetails) :
                events[i].cellDetails[k].oldMultiplier = events[i].cellDetails[k].newMultiplier

\* A wild at an edge, not a corner, was resolved.
EdgeWildResolved ==
    \E i \in 1..Len(events) :
        events[i].type = "wild_explosion" /\ Len(events[i].affectedCells) = 6

\* A wild inside the grid was resolved.
InnerWildResolved ==
    \E i \in 1..Len(events) :
        events[i].type = "wild_explosion" /\ Len(events[i].affectedCells) = 9

\* The server seeds a record shows in clear.
SeedFields(rec) == {rec[f] : f \in DOMAIN rec \cap {"serverSeed", "revealedServerSeed", "server_seed"}}

\* The server seeds a response shows in clear: its own fields, those of its seed
\* information and those of the spin result inside it.
ClearSeeds(out) ==
    SeedFields(out) \cup
    (IF "seedInfo" \in DOMAIN out THEN SeedFields(out.seedInfo) ELSE {}) \cup
    (IF "initialResult" \in DOMAIN out /\ out.initialResult # <<>>
     THEN SeedFields(out.initialResult[1]) \cup SeedFields(out.initialResult[1].seedInfo)
     ELSE {})

\* C13: no response shows the seed the session is using: a seed a response shows in clear is
\* one the session has replaced, a spin result shows no seed at all, play and bonus
\* responses carry the digest of the seed with the client seed and the nonce, and every spin
\* is computed with the seed in use, never with one that rotate-seed has returned.
SeedHidden ==
    HasSession =>
        /\ ClearSeeds(response) \subseteq caller.retired
        /\ caller.session.server_seed \notin caller.retired
        /\ caller.session.server_seed_hash = hash_server_seed(caller.session.server_seed)
        /\ pc # "idle" => /\ args.server_seed = caller.session.server_seed
                          /\ args.server_seed \notin caller.retired
        /\ pc = "done" => ClearSeeds(SpinResult_to_dict(result)) = {}
        /\ (response.kind \in {"play_legacy"} \/ (response.kind = "buy_bonus" /\ response.initialResult # <<>>)) =>
              LET info == IF response.kind = "play_legacy" THEN response.seedInfo
                          ELSE response.initialResult[1].seedInfo
              IN  /\ DOMAIN info = {"serverSeedHash", "clientSeed", "nonce"}
                  /\ info.serverSeedHash[1] = "sha256"

\* A spin was played and answered, the seed was rotated (the old one returned), and a spin
\* with the new seed has been answered.
SeedHiddenWitness ==
    /\ HasSession
    /\ pc = "idle"
    /\ caller.retired # {}
    /\ response.kind \in {"play_legacy", "buy_bonus"}
    /\ ClearSeeds(response) = {}
    /\ Len(caller.session.history) >= 1
    /\ caller.session.nonce = 1

JackpotEvents(es) == {i \in 1..Len(es) : es[i].type = "jackpot_win"}

\* C14: the jackpot is evaluated in one place, after the tumble loop has ended, and only in
\* a base-game spin: before that step no jackpot is set and no jackpot_win event exists; in
\* free-spin mode the step draws nothing and appends nothing, and the spin returns
\* jackpot_won = None and jackpot_amount = 0.
JackpotOnlyInBaseGame ==
    /\ [](pc \in {"restore", "reveal", "find", "wilds", "wins", "upgrade", "remove", "gravity",
                 "fill", "jackpot"} =>
             /\ jackpot_won = None
             /\ jackpot_amount = 0
             /\ JackpotEvents(events) = {})
    /\ [](pc \in {"return", "done"} /\ args.free_spin_mode =>
             /\ jackpot_won = None
             /\ jackpot_amount = 0
             /\ JackpotEvents(events) = {})
    /\ [](pc = "done" /\ result.is_free_spin =>
             /\ result.jackpot_won = None
             /\ result.jackpot_amount = 0
             /\ JackpotEvents(result.events) = {})
    /\ [](pc \in {"return", "done"} => Cardinality(JackpotEvents(events)) <= 1)
    /\ [][(pc = "jackpot" /\ args.free_spin_mode) => rng' = rng /\ events' = events]_vars
    /\ [][(rng' # rng /\ pc' = "return") => (pc = "jackpot" /\ ~args.free_spin_mode)]_vars
    /\ [][(pc = "jackpot" /\ ~args.free_spin_mode /\ EligiblePlaces(args.bet_amount) # {})
             => StreamPosition(rng') > StreamPosition(rng)]_vars

\* A free spin at a bet that reaches every tier has got past the jackpot step, on a stream
\* whose next roll is below the trigger chance of the grand tier.
JackpotOnlyInBaseGameWitness ==
    /\ pc = "return"
    /\ args.free_spin_mode
    /\ EligiblePlaces(args.bet_amount) = 1..Len(JACKPOT_ORDER)
    /\ roll_below_chance(random_float(rng), JACKPOT_TIERS["grand"].trigger_chance)

\* The generator after n floats have been drawn from g.
RECURSIVE AfterFloats(_, _)
AfterFloats(g, n) == IF n = 0 THEN g ELSE AfterFloats(random_float(g).rng, n - 1)

\* The roll for the tier at place i when every eligible tier above it has been rolled for.
RollFor(g, bet_amount, i) ==
    random_float(AfterFloats(g, Cardinality({j \in EligiblePlaces(bet_amount) : j < i})))

RollWins(g, bet_amount, i) ==
    roll_below_chance(RollFor(g, bet_amount, i), JACKPOT_TIERS[JACKPOT_ORDER[i]].trigger_chance)

\* C15: check_jackpot takes the tiers in the order grand, major, minor, mini; the tier won is
\* the highest eligible one whose roll is below its trigger chance, nothing is drawn for a
\* tier below it, and no tier is won when no eligible roll succeeds; a spin carries at most
\* one jackpot_win event, the one of the tier won.
HighestWinningTierOnly ==
    /\ [](JACKPOT_ORDER = <<"grand", "major", "minor", "mini">>)
    /\ [][(pc = "jackpot" /\ ~args.free_spin_mode) =>
             LET winners == {i \in EligiblePlaces(args.bet_amount) :
                                 RollWins(rng, args.bet_amount, i)}
                 best    == CHOOSE i \in winners : \A j \in winners : i <= j
             IN  IF winners = {}
                 THEN /\ jackpot_won' = None
                      /\ jackpot_amount' = 0
                      /\ events' = events
                      /\ rng' = AfterFloats(rng, Cardinality(EligiblePlaces(args.bet_amount)))
                 ELSE /\ jackpot_won' = JACKPOT_ORDER[best]
                      /\ rng' = AfterFloats(rng, Cardinality({j \in EligiblePlaces(args.bet_amount) :
                                                                 j <= best}))
                      /\ events' = Append(events, [type |-> "jackpot_win",
                                                   tier |-> JACKPOT_ORDER[best],
                                                   amount |-> jackpot_amount'])]_vars
    /\ [](pc \in {"return", "done"} =>
             /\ Cardinality(JackpotEvents(events)) <= 1
             /\ \A i \in JackpotEvents(events) :
                    i = Len(events) /\ events[i].tier = jackpot_won)

\* The grand tier has been won on a stream whose next roll is below the trigger chance of
\* the major tier, at a bet that reaches both.
HighestWinningTierOnlyWitness ==
    /\ pc = "return"
    /\ jackpot_won = "grand"
    /\ PlaceOf("major") \in EligiblePlaces(args.bet_amount)
    /\ roll_below_chance(random_float(rng), JACKPOT_TIERS["major"].trigger_chance)
    /\ Cardinality(JackpotEvents(events)) = 1

\* The major tier has been won after a roll for the grand tier that failed.
MajorAfterGrandFailed ==
    /\ pc = "return"
    /\ jackpot_won = "major"
    /\ PlaceOf("grand") \in EligiblePlaces(args.bet_amount)

DimensionsDiffer(existing_multipliers) ==
    /\ existing_multipliers # <<>>
    /\ \/ Len(existing_multipliers) # GRID_ROWS
       \/ \E r \in 1..Len(existing_multipliers) : Len(existing_multipliers[r]) # GRID_COLS

\* C16: a call of run_spin with a carry-over grid whose dimensions are not
\* GRID_ROWS x GRID_COLS ends with a ConfigurationError and returns no SpinResult.
CarryOverDimensionsChecked ==
    (pc \in {"done", "raised"} /\ DimensionsDiffer(args.existing_multipliers)) =>
        (pc = "raised" /\ result.error = "ConfigurationError")

\* A carry-over grid with a row and a column too many has been accepted: the spin returned,
\* and the values of the extra row and column are nowhere in its multipliers.
LargerGridTruncated ==
    /\ pc = "done"
    /\ args.existing_multipliers = LargerGrid
    /\ \A pos \in Cells : result.final_multipliers[pos] < MAX_MULTIPLIER

\* A carry-over grid with a row or a column missing has ended the call with an IndexError.
SmallerGridIndexError ==
    /\ pc = "raised"
    /\ args.existing_multipliers \in {FewerRows, ShorterRows}
    /\ result.error = "IndexError"

ForcedOutside(forced_wild_positions) ==
    \E i \in 1..Len(forced_wild_positions) : forced_wild_positions[i] \notin Cells

\* C17: a call of run_spin whose forced_wild_positions name a cell outside the grid ends
\* with an InputValidationError and returns no SpinResult.
ForcedPositionsChecked ==
    (pc \in {"done", "raised"} /\ ForcedOutside(args.forced_wild_positions)) =>
        (pc = "raised" /\ result.error = "InputValidationError")

\* A spin with a forced position outside the grid has returned; the position inside the
\* grid was forced, the other one left no trace.
OutsidePositionSkipped ==
    /\ pc = "done"
    /\ args.forced_wild_positions = EdgeWilds
    /\ result.initial_grid[5][5] = WILD

\* The number of places of a sequence of positions that hold pos.
TimesIn(positions, pos) == Cardinality({i \in 1..Len(positions) : positions[i] = pos})

\* C18: the escalation of one tumble iteration moves every cell of a winning cluster one
\* step (INITIAL_MULTIPLIER to GHOST_SPOT_BASE, otherwise to the double, capped at
\* MAX_MULTIPLIER), also a cell that is in two winning clusters, and leaves every other
\* cell as it is.
EscalatedOncePerCell ==
    [][pc = "upgrade" =>
          \A pos \in Cells :
              multipliers'[pos] =
                  IF \E i \in 1..Len(clusters) : pos \in SeqSet(clusters[i].positions)
                  THEN upgraded_value(multipliers[pos])
                  ELSE multipliers[pos]]_vars

\* The escalation is about to run on a wild that is in two winning clusters.
SharedCellEscalation ==
    /\ pc = "upgrade"
    /\ \E pos \in Cells :
          /\ symbols[pos] = WILD
          /\ TimesIn(all_winning_positions, pos) = 2
          /\ \E i, j \in 1..Len(clusters) :
                /\ i # j
                /\ pos \in SeqSet(clusters[i].positions)
                /\ pos \in SeqSet(clusters[j].positions)

\* The largest multiplier on the cells of a sequence of positions.
MaxOver(mults, positions) ==
    CHOOSE m \in {mults[p] : p \in SeqSet(positions)} :
        \A p \in SeqSet(positions) : mults[p] <= m

\* The events appended by a step.
NewEvents == SubSeq(events', Len(events) + 1, Len(events'))

\* The places of the multiplier_upgrade events of es for the cell pos.
UpgradesOf(es, pos) ==
    {i \in 1..Len(es) : es[i].type = "multiplier_upgrade" /\ es[i].position = pos}

\* The value of the cell of the upgrade event at place i just before that event: the value
\* of the last earlier upgrade event for the cell, or the cell's value in mults.
ValueBefore(es, i, mults) ==
    LET earlier == {j \in UpgradesOf(es, es[i].position) : j < i}
    IN  IF earlier = {} THEN mults[es[i].position]
        ELSE es[CHOOSE j \in earlier : \A k \in earlier : k <= j].value

\* C19: in a tumble iteration the wilds are resolved first, then one win event per cluster
\* is emitted whose multiplier is the largest multiplier on the cluster's cells as they are
\* then, and its amount uses it; then the cells are escalated, with the winning symbols
\* still in place, and the multiplier_upgrade events carry escalated values (the last one
\* for a cell the value the cell ends with); only then are the winning symbols removed.
WinsBetweenWildsAndEscalation ==
    /\ [][(pc' = "wins" => pc = "wilds") /\ (pc' = "upgrade" => pc = "wins") /\
          (pc' = "remove" => pc = "upgrade")]_vars
    /\ [][pc = "wilds" =>
             /\ pc' = "wins"
             /\ Len(events') >= Len(events)
             /\ SubSeq(events', 1, Len(events)) = events
             /\ \A i \in 1..Len(NewEvents) : NewEvents[i].type = "wild_explosion"]_vars
    /\ [][pc = "wins" =>
             /\ multipliers' = multipliers
             /\ symbols' = symbols
             /\ SubSeq(events', 1, Len(events)) = events
             /\ Len(NewEvents) = Len(clusters)
             /\ \A i \in 1..Len(clusters) :
                    /\ NewEvents[i].type = "win"
                    /\ NewEvents[i].positions = clusters[i].positions
                    /\ NewEvents[i].multiplier = MaxOver(multipliers, clusters[i].positions)
                    /\ NewEvents[i].amount =
                           IF args.bet_amount = 0 THEN 0
                           ELSE clusters[i].base_payout * CentUnits *
                                    MaxOver(multipliers, clusters[i].positions)]_vars
    /\ [][pc = "upgrade" =>
             /\ symbols' = symbols
             /\ \A i \in 1..Len(clusters) :
                    \A p \in SeqSet(clusters[i].positions) : symbols[p] # None
             /\ SubSeq(events', 1, Len(events)) = events
             /\ \A i \in 1..Len(NewEvents) :
                    /\ NewEvents[i].type = "multiplier_upgrade"
                    /\ NewEvents[i].value =
                           upgraded_value(ValueBefore(NewEvents, i, multipliers))
             /\ \A pos \in Cells :
                    IF UpgradesOf(NewEvents, pos) = {}
                    THEN multipliers'[pos] = multipliers[pos]
                    ELSE \E i \in UpgradesOf(NewEvents, pos) :
                            /\ \A j \in UpgradesOf(NewEvents, pos) : j <= i
                            /\ NewEvents[i].value = multipliers'[pos]]_vars
    /\ [][pc = "remove" =>
             /\ multipliers' = multipliers
             /\ events' = events
             /\ \A i \in 1..Len(clusters) :
                    \A p \in SeqSet(clusters[i].positions) : symbols'[p] = None]_vars

\* The win events of an iteration have been emitted and the escalation is next: a wild was
\* resolved, one win carries a multiplier above the one its cluster was found with, and the
\* escalation is going to raise that cluster's cells further.
WinsBetweenWildsAndEscalationWitness ==
    /\ pc = "upgrade"
    /\ wild_positions_in_clusters # <<>>
    /\ Len(events) >= Len(clusters)
    /\ \E i \in 1..Len(clusters) :
          LET e == events[Len(events) - Len(clusters) + i]
          IN  /\ e.type = "win"
              /\ e.multiplier > clusters[i].multiplier
              /\ e.multiplier = MaxOver(multipliers, clusters[i].positions)
              /\ upgraded_value(e.multiplier) > e.multiplier

\* The sum of the amounts of the win events among the first n events of es.
RECURSIVE WinAmounts(_, _)
WinAmounts(es, n) ==
    IF n = 0 THEN 0
    ELSE WinAmounts(es, n - 1) + (IF es[n].type = "win" THEN es[n].amount ELSE 0)

\* The paytable entry for a symbol and a cluster size of at least MIN_CLUSTER_SIZE, sizes
\* above PAYTABLE_CAP taking the entry of PAYTABLE_CAP.
PaytableEntry(symbol, size) ==
    PAYTABLE[symbol][(IF size > PAYTABLE_CAP THEN PAYTABLE_CAP ELSE size) - MIN_CLUSTER_SIZE + 1]

\* C20: the amount of every win event is the paytable entry for its symbol and
\* min(size, PAYTABLE_CAP), times its multiplier, times the bet (amounts are kept per unit
\* of bet, and are 0 for a bet of 0); for a positive bet the payout_multiplier returned is
\* the sum of the win amounts and the jackpot amount over the bet, capped at
\* MAX_WIN_MULTIPLIER.
WinAmountsAndPayoutMultiplier ==
    /\ \A i \in 1..Len(events) :
          events[i].type = "win" =>
              /\ events[i].size = Len(events[i].positions)
              /\ events[i].basePayout = PaytableEntry(events[i].symbol, events[i].size)
              /\ events[i].amount =
                     IF args.bet_amount = 0 THEN 0
                     ELSE PaytableEntry(events[i].symbol, events[i].size) * CentUnits *
                              events[i].multiplier
    /\ (pc = "done" /\ args.bet_amount > 0) =>
          /\ result.events = events
          /\ result.payout_multiplier =
                 Min(MAX_WIN_MULTIPLIER * PerBetUnits,
                     WinAmounts(result.events, Len(result.events)) + result.jackpot_amount)

\* A spin at a positive bet has returned with a win of a cluster larger than PAYTABLE_CAP
\* and a payout multiplier below the cap.
WinAmountsAndPayoutMultiplierWitness ==
    /\ pc = "done"
    /\ args.bet_amount > 0
    /\ \E i \in 1..Len(result.events) :
          /\ result.events[i].type = "win"
          /\ result.events[i].size > PAYTABLE_CAP
    /\ result.payout_multiplier > 0
    /\ result.payout_multiplier < MAX_WIN_MULTIPLIER * PerBetUnits

\* A spin has returned with a win and a jackpot, both in its payout multiplier.
WinAndJackpotPaid ==
    /\ pc = "done"
    /\ result.jackpot_won # None
    /\ result.jackpot_amount > 0
    /\ WinAmounts(result.events, Len(result.events)) > 0
    /\ result.payout_multiplier =
           WinAmounts(result.events, Len(result.events)) + result.jackpot_amount

\* Two cells next to each other in a row or in a column.
Adjacent(p, q) ==
    \/ p[1] = q[1] /\ (p[2] = q[2] + 1 \/ q[2] = p[2] + 1)
    \/ p[2] = q[2] /\ (p[1] = q[1] + 1 \/ q[1] = p[1] + 1)

\* The cells of allowed that are reached from the cells of reached through adjacent cells
\* of allowed; frontier holds the cells reached last.
RECURSIVE Grow(_, _, _)
Grow(allowed, reached, frontier) ==
    LET next == {q \in allowed \ reached : \E p \in frontier : Adjacent(p, q)}
    IN  IF next = {} THEN reached ELSE Grow(allowed, reached \cup next, next)

\* The cells of grid that hold the symbol s or a wild.
CellsOf(grid, s) == {p \in Cells : grid[p] = s \/ grid[p] = WILD}

\* The region of the cell p: the cells holding p's symbol or a wild that are linked to p.
RegionOf(grid, p) == Grow(CellsOf(grid, grid[p]), {p}, {p})

IsRegular(symbol) == symbol \notin {None, SCATTER, WILD}

\* C21: every cluster find_all_clusters returns is made of distinct cells, is linked
\* through neighbours in a row or a column alone, holds no scatter and no empty cell, and
\* all its cells that are not wilds hold the symbol the cluster reports.
ClustersWellFormed ==
    pc = "found" =>
        \A i \in 1..Len(clusters) :
            LET cells == SeqSet(clusters[i].positions)
            IN  /\ cells # {}
                /\ Cardinality(cells) = Len(clusters[i].positions)
                /\ cells \subseteq Cells
                /\ Grow(cells, {clusters[i].positions[1]}, {clusters[i].positions[1]}) = cells
                /\ \A p \in cells :
                       /\ symbols[p] # SCATTER
                       /\ symbols[p] # None
                       /\ symbols[p] # WILD => symbols[p] = clusters[i].symbol
                /\ clusters[i].symbol # SCATTER

\* find_all_clusters has returned a cluster with wilds on a grid with four scatters in a
\* square next to it.
ClustersWellFormedWitness ==
    /\ pc = "found"
    /\ \A p \in {<<0, 0>>, <<0, 1>>, <<1, 0>>, <<1, 1>>} : symbols[p] = SCATTER
    /\ \E i \in 1..Len(clusters) :
          /\ \E p \in SeqSet(clusters[i].positions) : symbols[p] = WILD
          /\ \E p \in SeqSet(clusters[i].positions) : \E q \in Cells :
                 Adjacent(p, q) /\ symbols[q] = SCATTER

\* The regular cells next to a cell of the set reached.
RegularBeside(grid, reached) ==
    {q \in Cells : IsRegular(grid[q]) /\ \E p \in reached : Adjacent(p, q)}

\* The regular cells nearest to a set of wilds: those next to it, or else those nearest to
\* the set with the wilds next to it added.
RECURSIVE NearestRegular(_, _)
NearestRegular(grid, reached) ==
    LET more == reached \cup {q \in Cells : grid[q] = WILD /\ \E p \in reached : Adjacent(p, q)}
    IN  IF RegularBeside(grid, reached) # {} THEN RegularBeside(grid, reached)
        ELSE IF more = reached THEN {}
        ELSE NearestRegular(grid, more)

\* The regular neighbours of a cell, in the order of the directions of _bfs_cluster.
RegularNeighbours(grid, p) ==
    SelectSeq([i \in 1..Len(directions4) |-> <<p[1] + directions4[i][1], p[2] + directions4[i][2]>>],
              LAMBDA q : q \in Cells /\ IsRegular(grid[q]))

\* C22: a cluster whose fill started on a wild reports the symbol of a regular cell nearest
\* to that wild through wilds (of the first regular neighbour of the wild, in the order
\* up, down, left, right, when it has one), holds all the cells of that symbol and the wilds
\* linked to the start and no cell of another regular symbol; a cluster of wilds with no
\* regular cell beside them reports WILD.
WildStartResolved ==
    pc = "found" =>
        \A i \in 1..Len(clusters) :
            LET start == clusters[i].positions[1]
                cells == SeqSet(clusters[i].positions)
                near  == NearestRegular(symbols, {start})
            IN  symbols[start] = WILD =>
                    IF near = {}
                    THEN /\ clusters[i].symbol = WILD
                         /\ \A p \in cells : symbols[p] = WILD
                         /\ cells = Grow({p \in Cells : symbols[p] = WILD}, {start}, {start})
                    ELSE /\ clusters[i].symbol \in {symbols[q] : q \in near}
                         /\ RegularNeighbours(symbols, start) # <<>> =>
                                clusters[i].symbol = symbols[RegularNeighbours(symbols, start)[1]]
                         /\ \A p \in cells : symbols[p] \in {WILD, clusters[i].symbol}
                         /\ cells = Grow(CellsOf(symbols, clusters[i].symbol), {start}, {start})

\* A fill that started on a wild with two different regular symbols beside it has given a
\* cluster, and a cell of the other symbol beside the start is not in it.
WildStartResolvedWitness ==
    /\ pc = "found"
    /\ \E i \in 1..Len(clusters) :
          LET start == clusters[i].positions[1]
          IN  /\ symbols[start] = WILD
              /\ IsRegular(clusters[i].symbol)
              /\ \E q \in Cells :
                     /\ Adjacent(start, q)
                     /\ IsRegular(symbols[q])
                     /\ symbols[q] # clusters[i].symbol
                     /\ q \notin SeqSet(clusters[i].positions)

\* A fill that started on a wild has given a cluster of wilds alone.
WildOnlyCluster ==
    /\ pc = "found"
    /\ \E i \in 1..Len(clusters) :
          /\ clusters[i].symbol = WILD
          /\ \A p \in SeqSet(clusters[i].positions) : symbols[p] = WILD

\* The groups of a grid: for every regular cell its region, for every wild the wilds linked
\* to it; and those of at least MIN_CLUSTER_SIZE cells.
GroupsOf(grid) == {RegionOf(grid, p) : p \in {q \in Cells : grid[q] \notin {None, SCATTER}}}
Qualifying(grid) == {G \in GroupsOf(grid) : Cardinality(G) >= MIN_CLUSTER_SIZE}

\* The grid of a list of rows of symbol values.
GridOfRows(rows) ==
    [pos \in Cells |-> IF rows[pos[1] + 1][pos[2] + 1] = "" THEN None
                       ELSE rows[pos[1] + 1][pos[2] + 1]]

\* C23: when the tumble loop has ended, and in the result returned, the grid holds no group
\* of at least MIN_CLUSTER_SIZE linked cells of one regular symbol and wilds, or of wilds
\* alone; and whenever the finder returns clusters, every such group of the grid is among
\* them (a group of wilds alone is inside one of them).
NoGroupLeft ==
    /\ [](pc \in {"jackpot", "return", "done"} => Qualifying(symbols) = {})
    /\ [](pc = "done" => Qualifying(GridOfRows(result.final_grid)) = {})
    /\ [][(pc = "find" /\ pc' = "wilds") =>
             \A G \in Qualifying(symbols) :
                 \E i \in 1..Len(clusters') :
                     /\ G \subseteq SeqSet(clusters'[i].positions)
                     /\ (\E p \in G : symbols[p] # WILD) => G = SeqSet(clusters'[i].positions)]_vars

\* A spin has returned after a tumble with a final grid on which a wild lies between two
\* different regular symbols and a group one cell short of a cluster exists.
NoGroupLeftWitness ==
    /\ pc = "done"
    /\ tumble_count > 0
    /\ \E p \in Cells :
          /\ symbols[p] = WILD
          /\ \E q1, q2 \in Cells :
                /\ Adjacent(p, q1) /\ Adjacent(p, q2)
                /\ IsRegular(symbols[q1]) /\ IsRegular(symbols[q2])
                /\ symbols[q1] # symbols[q2]
    /\ \E G \in GroupsOf(symbols) : Cardinality(G) = MIN_CLUSTER_SIZE - 1

\* On a grid of its own, the finder returns every group of the grid.
FinderComplete ==
    pc = "found" =>
        \A G \in Qualifying(symbols) :
            \E i \in 1..Len(clusters) :
                /\ G \subseteq SeqSet(clusters[i].positions)
                /\ (\E p \in G : symbols[p] # WILD) => G = SeqSet(clusters[i].positions)

\* The values on the wheel.
WheelValues == {WHEEL_OPTIONS[i][1] : i \in 1..Len(WHEEL_OPTIONS)}

\* The largest of a non-empty set of numbers.
Largest(S) == CHOOSE m \in S : \A x \in S : x <= m

\* The multipliers after the first n of a sequence of explosions, from mults on.
RECURSIVE AfterExplosions(_, _, _)
AfterExplosions(mults, explosions, n) ==
    IF n = 0 THEN mults
    ELSE LET before == AfterExplosions(mults, explosions, n - 1)
         IN  [pos \in Cells |->
                 IF pos \in Neighbourhood(explosions[n].wildPosition)
                 THEN Largest({before[pos], explosions[n].wheelMultiplier})
                 ELSE before[pos]]

\* C24: the resolution of the wilds of an iteration draws one float for each wild, each
\* wheel value is one of 2, 4, 8, 16, 32, 64, 128, 256, and each resolution sets the wild's
\* cell and its neighbours inside the grid to the larger of the value they had and the
\* wheel value, and leaves every other cell as it was.
WheelSetsMaximum ==
    /\ [](WheelValues = {2, 4, 8, 16, 32, 64, 128, 256})
    /\ [][pc = "wilds" =>
             /\ Len(Appended) = Len(wild_positions_in_clusters)
             /\ StreamPosition(rng') =
                    StreamPosition(rng) + FLOAT_BYTES * Len(wild_positions_in_clusters)
             /\ rng' = AfterFloats(rng, Len(wild_positions_in_clusters))
             /\ \A i \in 1..Len(Appended) :
                    /\ Appended[i].type = "wild_explosion"
                    /\ Appended[i].wildPosition = wild_positions_in_clusters[i]
                    /\ Appended[i].wheelMultiplier \in WheelValues
                    /\ \A k \in 1..Len(Appended[i].cellDetails) :
                           LET d == Appended[i].cellDetails[k]
                           IN  /\ d.oldMultiplier =
                                      AfterExplosions(multipliers, Appended, i - 1)[d.position]
                               /\ d.newMultiplier =
                                      Largest({d.oldMultiplier, Appended[i].wheelMultiplier})
             /\ multipliers' = AfterExplosions(multipliers, Appended, Len(Appended))]_vars

\* A wild has been resolved next to a cell whose multiplier was above 1 and below the wheel
\* value: the cell now holds the wheel value.
WheelSetsMaximumWitness ==
    /\ pc = "wins"
    /\ \E i \in 1..Len(events) :
          /\ events[i].type = "wild_explosion"
          /\ \E k \in 1..Len(events[i].cellDetails) :
                /\ events[i].cellDetails[k].oldMultiplier > INITIAL_MULTIPLIER
                /\ events[i].cellDetails[k].oldMultiplier < events[i].wheelMultiplier
                /\ events[i].cellDetails[k].newMultiplier = events[i].wheelMultiplier
                /\ multipliers[events[i].cellDetails[k].position] = events[i].wheelMultiplier

\* The wild cells of the winning clusters of the iteration.
WildsInClusters ==
    {p \in Cells : symbols[p] = WILD /\ \E i \in 1..Len(clusters) : p \in SeqSet(clusters[i].positions)}

\* The places of the wild_explosion events of es.
ExplosionPlaces(es) == {i \in 1..Len(es) : es[i].type = "wild_explosion"}

\* C25: the wild step of an iteration resolves each wild cell of the winning clusters once
\* (one wild_explosion event for it, also when it is in several clusters) and no other
\* cell; it comes before the win events, the removal and the gravity of the iteration, with
\* every symbol still in place, and no other step appends a wild_explosion event.
EachWildResolvedOnce ==
    /\ [][pc = "wilds" =>
             /\ pc' = "wins"
             /\ symbols' = symbols
             /\ \A i \in 1..Len(Appended) : Appended[i].type = "wild_explosion"
             /\ {Appended[i].wildPosition : i \in 1..Len(Appended)} = WildsInClusters
             /\ Len(Appended) = Cardinality(WildsInClusters)
             /\ WildsInClusters = {} => (multipliers' = multipliers /\ rng' = rng)]_vars
    /\ [][pc # "wilds" =>
             Cardinality(ExplosionPlaces(events')) = Cardinality(ExplosionPlaces(events))]_vars
    /\ [][(pc' = "wins" => pc = "wilds") /\ (pc' = "wilds" => pc = "find") /\
          (pc = "wins" => pc' = "upgrade") /\ (pc = "upgrade" => pc' = "remove") /\
          (pc = "remove" => pc' = "gravity")]_vars
    /\ [][(pc = "wins" \/ pc = "upgrade") => (symbols' = symbols)]_vars

\* The wilds of the first iteration have been resolved: a wild that is in two winning
\* clusters has one wild_explosion event.
EachWildResolvedOnceWitness ==
    /\ pc = "wins"
    /\ tumble_count = 1
    /\ \E pos \in WildsInClusters :
          /\ TimesIn(all_winning_positions, pos) = 2
          /\ Cardinality({i \in ExplosionPlaces(events) : events[i].wildPosition = pos}) = 1

\* The wilds of an iteration have been resolved while a wild outside every winning cluster
\* is on the grid: no wild_explosion event names it.
WildOutsideNotResolved ==
    /\ pc = "wins"
    /\ tumble_count = 1
    /\ WildsInClusters # {}
    /\ \E pos \in Cells :
          /\ symbols[pos] = WILD
          /\ pos \notin WildsInClusters
          /\ \A i \in ExplosionPlaces(events) : events[i].wildPosition # pos

\* The rows of the cells of a column that hold a symbol, from the top down.
OccupiedRows(grid, col) ==
    SelectSeq([r \in 1..GRID_ROWS |-> r - 1], LAMBDA row : grid[<<row, col>>] # None)

\* C26: apply_gravity leaves in every column the empty cells above the symbols, keeps the
\* symbols of every column and their order from the top down, and returns one movement
\* (from, to, symbol) for each symbol whose row changed and no other.
GravityKeepsColumns ==
    [][(pc = "grid" /\ pc' = "fallen") =>
          /\ \A col \in Cols :
                /\ \A r1, r2 \in Rows :
                       (r1 < r2 /\ symbols'[<<r2, col>>] = None) => symbols'[<<r1, col>>] = None
                /\ Len(OccupiedRows(symbols', col)) = Len(OccupiedRows(symbols, col))
                /\ \A k \in 1..Len(OccupiedRows(symbols, col)) :
                       symbols'[<<OccupiedRows(symbols', col)[k], col>>] =
                           symbols[<<OccupiedRows(symbols, col)[k], col>>]
          /\ LET moved == UNION {{[from |-> <<OccupiedRows(symbols, col)[k], col>>,
                                    to |-> <<OccupiedRows(symbols', col)[k], col>>,
                                    symbol |-> symbols[<<OccupiedRows(symbols, col)[k], col>>]] :
                                      k \in 1..Len(OccupiedRows(symbols, col))} : col \in Cols}
             IN  /\ SeqSet(result'.movements) = {m \in moved : m.from # m.to}
                 /\ Len(result'.movements) = Cardinality({m \in moved : m.from # m.to})]_vars

\* apply_gravity has returned two movements of one column over different distances, in a
\* column whose bottom symbol stayed where it was.
GravityKeepsColumnsWitness ==
    /\ pc = "fallen"
    /\ \E i, j \in 1..Len(result.movements) :
          LET a == result.movements[i]
              b == result.movements[j]
          IN  /\ a.from[2] = b.from[2]
              /\ a.to[1] - a.from[1] # b.to[1] - b.from[1]
              /\ \A k \in 1..Len(result.movements) :
                     result.movements[k].to # <<GRID_ROWS - 1, a.from[2]>>
              /\ symbols[<<GRID_ROWS - 1, a.from[2]>>] # None

\* C27: the removal of the winning symbols, the gravity and the refill leave every
\* multiplier at its cell: the three steps follow the escalation one after the other and
\* none of them changes the multiplier grid, so the grid the next search for clusters
\* sees is the grid the escalation left.
MultipliersStayInPlace ==
    /\ [][(pc = "remove" \/ pc = "gravity" \/ pc = "fill") => (multipliers' = multipliers)]_vars
    /\ [][(pc = "upgrade" => pc' = "remove") /\ (pc = "remove" => pc' = "gravity") /\
          (pc = "gravity" => pc' = "fill") /\ (pc = "fill" => pc' = "find")]_vars
    /\ [][(pc = "remove" => \E p \in Cells : symbols'[p] # symbols[p]) /\
          (pc = "fill" => \E p \in Cells : symbols'[p] # symbols[p])]_vars

\* An iteration has ended with a refill: a symbol fell from a cell whose multiplier is
\* still 1 into a cell whose multiplier the escalation raised.
MultipliersStayInPlaceWitness ==
    /\ pc = "find"
    /\ tumble_count = 1
    /\ events[Len(events)].type = "fill"
    /\ \E i \in 1..Len(events) :
          /\ events[i].type = "tumble"
          /\ \E k \in 1..Len(events[i].movements) :
                /\ multipliers[events[i].movements[k].from] = INITIAL_MULTIPLIER
                /\ multipliers[events[i].movements[k].to] > INITIAL_MULTIPLIER
                /\ symbols[events[i].movements[k].to] = events[i].movements[k].symbol

\* The types of event that may come right after an event of type a in the log.
MayFollow(a) ==
    CASE a = "reveal" -> {"free_spins_trigger", "wild_explosion", "win", "jackpot_win"}
      [] a = "wild_explosion" -> {"wild_explosion", "win"}
      [] a = "win" -> {"win", "multiplier_upgrade", "tumble", "fill"}
      [] a = "multiplier_upgrade" -> {"multiplier_upgrade", "tumble", "fill"}
      [] a = "tumble" -> {"fill"}
      [] a = "fill" -> {"free_spins_trigger", "wild_explosion", "win", "jackpot_win"}
      [] a = "free_spins_trigger" -> {"wild_explosion", "win", "jackpot_win"}
      [] a = "jackpot_win" -> {}

\* The number of fill events among the events of es.
FillCount(es) == Cardinality({i \in 1..Len(es) : es[i].type = "fill"})

\* The log begins with the reveal event and every event is one that may follow the
\* event before it.
EventsInOrder ==
    /\ events # <<>> => events[1].type = "reveal"
    /\ \A i \in 1..(Len(events) - 1) : events[i + 1].type \in MayFollow(events[i].type)

\* C28: the event log of a spin is in causal order.  It begins with the one reveal event;
\* an iteration writes its wild_explosion events, then its win events, then its
\* multiplier_upgrade events, then at most one tumble event, then exactly one fill event,
\* then at most one free_spins_trigger event; a jackpot_win event is the last event; and
\* the events of iteration n are appended, after those of the iterations before it, while
\* the log holds n - 1 fill events.
EventLogInCausalOrder ==
    /\ []EventsInOrder
    /\ [][(pc = "wilds" \/ pc = "wins" \/ pc = "upgrade" \/ pc = "gravity" \/ pc = "fill")
             => /\ Len(events') >= Len(events)
                /\ SubSeq(events', 1, Len(events)) = events
                /\ FillCount(events) = tumble_count - 1
                /\ FillCount(events') = IF pc = "fill" THEN tumble_count ELSE tumble_count - 1]_vars
    /\ [][(pc = "find" \/ pc = "jackpot")
             => /\ FillCount(events) = tumble_count
                /\ SubSeq(events', 1, Len(events)) = events
                /\ FillCount(events') = FillCount(events)]_vars

\* A spin of two iterations or more has returned: its log holds wild_explosion, win,
\* multiplier_upgrade, tumble and fill events, and the second iteration begins right
\* after the first fill event.
EventLogInCausalOrderWitness ==
    /\ pc = "done"
    /\ tumble_count >= 2
    /\ {"wild_explosion", "win", "multiplier_upgrade", "tumble", "fill"}
          \subseteq {events[i].type : i \in 1..Len(events)}
    /\ \E i \in 2..(Len(events) - 1) :
          /\ events[i].type = "fill"
          /\ events[i + 1].type = "wild_explosion"

\* A spin has returned whose log ends with the free_spins_trigger event of a refill.
RefillTriggerClosesTheLog ==
    /\ pc = "done"
    /\ tumble_count >= 1
    /\ events[Len(events)].type = "free_spins_trigger"
    /\ events[Len(events) - 1].type = "fill"

\* A spin has returned whose log ends with a jackpot_win event after the fill event of
\* an iteration.
JackpotClosesTheLog ==
    /\ pc = "done"
    /\ tumble_count >= 1
    /\ events[Len(events)].type = "jackpot_win"
    /\ events[Len(events) - 1].type = "fill"

\* A free_spins_trigger event right after the reveal event, before the first iteration.
TriggerBeforeFirstIteration ==
    /\ pc = "done"
    /\ tumble_count >= 1
    /\ Len(events) >= 2
    /\ events[2].type = "free_spins_trigger"

\* The grids a replay starts from: the symbols of the initial grid of a result and the
\* multipliers of the carry-over grid, or 1 everywhere when there is none.
ReplayStart(grid, existing_multipliers) ==
    [symbols |-> [pos \in Cells |-> IF grid[pos[1] + 1][pos[2] + 1] = "" THEN None
                                    ELSE grid[pos[1] + 1][pos[2] + 1]],
     multipliers |-> [pos \in Cells |-> IF existing_multipliers = <<>> THEN INITIAL_MULTIPLIER
                                        ELSE existing_multipliers[pos[1] + 1][pos[2] + 1]]]

RECURSIVE SetMultipliers(_, _)
SetMultipliers(mults, details) ==
    IF details = <<>> THEN mults
    ELSE SetMultipliers([mults EXCEPT ![Head(details).position] = Head(details).newMultiplier],
                        Tail(details))

RECURSIVE MoveSymbols(_, _)
MoveSymbols(syms, movements) ==
    IF movements = <<>> THEN syms
    ELSE MoveSymbols([syms EXCEPT ![Head(movements).from] = None,
                                  ![Head(movements).to] = syms[Head(movements).from]],
                     Tail(movements))

RECURSIVE PlaceFills(_, _)
PlaceFills(syms, fills) ==
    IF fills = <<>> THEN syms
    ELSE PlaceFills([syms EXCEPT ![Head(fills).position] = Head(fills).symbol], Tail(fills))

\* The grids after one event of the log is replayed on the grids g.
ReplayEvent(g, e) ==
    CASE e.type = "wild_explosion" ->
            [g EXCEPT !.multipliers = SetMultipliers(g.multipliers, e.cellDetails)]
      [] e.type = "multiplier_upgrade" ->
            [g EXCEPT !.multipliers = [g.multipliers EXCEPT ![e.position] = e.value]]
      [] e.type = "win" ->
            [g EXCEPT !.symbols = [pos \in Cells |-> IF pos \in SeqSet(e.positions) THEN None
                                                     ELSE g.symbols[pos]]]
      [] e.type = "tumble" -> [g EXCEPT !.symbols = MoveSymbols(g.symbols, e.movements)]
      [] e.type = "fill" -> [g EXCEPT !.symbols = PlaceFills(g.symbols, e.fills)]
      [] OTHER -> g

RECURSIVE Replay(_, _)
Replay(g, es) == IF es = <<>> THEN g ELSE Replay(ReplayEvent(g, Head(es)), Tail(es))

\* C29: a result's event log replayed on its initial grid and on the initial multipliers
\* (1 everywhere, or the carry-over grid) ends on its final_grid and its final_multipliers,
\* and the log holds as many fill events as the result's tumble_count.
ReplayGivesFinalGrids ==
    pc = "done" =>
        LET g == Replay(ReplayStart(result.initial_grid, args.existing_multipliers), result.events)
        IN  /\ get_symbol_grid(g.symbols) = result.final_grid
            /\ g.multipliers = result.final_multipliers
            /\ FillCount(result.events) = result.tumble_count

\* A spin of two iterations or more has returned whose log holds wild_explosion,
\* multiplier_upgrade and tumble events and whose final grids differ from the initial ones.
ReplayGivesFinalGridsWitness ==
    /\ pc = "done"
    /\ result.tumble_count >= 2
    /\ {"wild_explosion", "multiplier_upgrade", "tumble"}
          \subseteq {result.events[i].type : i \in 1..Len(result.events)}
    /\ result.final_grid # result.initial_grid
    /\ \E pos \in Cells : result.final_multipliers[pos] > INITIAL_MULTIPLIER

\* A spin on a carry-over grid has returned after an iteration with escalations.
ReplayFromCarryOver ==
    /\ pc = "done"
    /\ args.existing_multipliers # <<>>
    /\ result.tumble_count >= 1
    /\ \E i \in 1..Len(result.events) : result.events[i].type = "multiplier_upgrade"

\* The entries of the award table of the mode of the call.
AwardEntries ==
    IF args.free_spin_mode THEN {SCATTER_RETRIGGER[n] : n \in DOMAIN SCATTER_RETRIGGER}
    ELSE {SCATTER_FREE_SPINS[n] : n \in DOMAIN SCATTER_FREE_SPINS}

\* The log holds at most one free_spins_trigger event; free_spins_triggered is 0 without
\* one and with one it is the award of that event, one entry of the table of the mode.
OneAwardAtMost ==
    Revealed =>
        /\ Cardinality(TriggerIndexes) <= 1
        /\ TriggerIndexes = {} => free_spins_triggered = 0
        /\ \A i \in TriggerIndexes :
              /\ events[i].freeSpinsAwarded = free_spins_triggered
              /\ free_spins_triggered \in AwardEntries
              /\ free_spins_triggered =
                    scatter_award(args.free_spin_mode, events[i].scatterCount)
        /\ pc = "done" => result.free_spins_triggered = free_spins_triggered

\* C30: a spin writes at most one free_spins_trigger event.  The scatters are counted on
\* the initial grid and after each refill; once free spins are awarded no later step of
\* the spin awards again or changes the award, so free_spins_triggered is 0 or one entry
\* of the award table.
AtMostOneTriggerPerSpin ==
    /\ []OneAwardAtMost
    /\ [][(Revealed /\ pc # "done" /\ free_spins_triggered # 0)
             => /\ free_spins_triggered' = free_spins_triggered
                /\ \A i \in 1..Len(Appended) : Appended[i].type # "free_spins_trigger"]_vars
    /\ [][(Revealed /\ pc # "done" /\ pc # "fill")
             => /\ free_spins_triggered' = free_spins_triggered
                /\ \A i \in 1..Len(Appended) : Appended[i].type # "free_spins_trigger"]_vars

\* Free spins were awarded on the initial grid; a refill has just ended with three
\* scatters or more on the grid and no second free_spins_trigger event.
AtMostOneTriggerPerSpinWitness ==
    /\ pc = "find"
    /\ tumble_count >= 1
    /\ events[Len(events)].type = "fill"
    /\ events[2].type = "free_spins_trigger"
    /\ free_spins_triggered = events[2].freeSpinsAwarded
    /\ Len(count_scatters(symbols)) >= SCATTER_TRIGGER_MIN

\* Free spins were awarded by a refill: the one free_spins_trigger event follows its
\* fill event.
AwardedByRefill ==
    /\ pc = "done"
    /\ result.free_spins_triggered > 0
    /\ \E i \in TriggerIndexes : i > 2 /\ events[i - 1].type = "fill"

\* The cells of a grid given as rows that hold a scatter.
ScatterCells(grid) == {pos \in Cells : grid[pos[1] + 1][pos[2] + 1] = SCATTER}

\* The scatters the base-game table draws on the grid of a seed triple, before any is
\* replaced.
GeneratedScatters(a) ==
    count_scatters(generate_grid(create_rng(a.server_seed, a.client_seed, a.nonce),
                                 FALSE, FALSE, FALSE).grid)

\* C31: the grid run_bonus_trigger_spin returns holds exactly scatter_count scatters, at
\* the positions its free_spins_trigger event lists, also when the generated grid held
\* scatters that were replaced.
ExactlyTheForcedScatters ==
    pc = "landed" =>
        /\ Cardinality(ScatterCells(result.final_grid)) = args.scatter_count
        /\ ScatterCells(result.final_grid) =
              {result.events[2].positions[i] : i \in 1..Len(result.events[2].positions)}

\* The generated grid held one scatter outside the sampled positions; the symbol drawn in
\* its place is a scatter again, and the grid returned holds one scatter more than forced.
ScatterDrawnAgain ==
    /\ pc = "landed"
    /\ Len(GeneratedScatters(args)) = 1
    /\ ~InSeq(GeneratedScatters(args)[1], result.events[2].positions)
    /\ GeneratedScatters(args)[1] \in ScatterCells(result.final_grid)
    /\ Cardinality(ScatterCells(result.final_grid)) = args.scatter_count + 1

\* The generated grid held scatters outside the sampled positions and the grid returned
\* holds exactly the forced ones.
ScattersReplaced ==
    /\ pc = "landed"
    /\ \E i \in 1..Len(GeneratedScatters(args)) :
          ~InSeq(GeneratedScatters(args)[i], result.events[2].positions)
    /\ Cardinality(ScatterCells(result.final_grid)) = args.scatter_count

\* The tiers /jackpot/info advertises for a bet: those whose minBetFloat the bet reaches.
AdvertisedTiers(bet_amount) ==
    {tier_id \in DOMAIN JACKPOT_TIERS : bet_amount >= get_jackpot_info(tier_id).minBetFloat}

\* C32: in a base-game spin with a bet the API takes that is at or above the minimum bet
\* /jackpot/info gives for a tier, check_jackpot makes a draw of the generator, and a
\* jackpot won is a tier advertised for the bet.
AdvertisedTierEligible ==
    (pc = "jackpot" /\ ~args.free_spin_mode /\ args.bet_amount \in ApiBets
        /\ AdvertisedTiers(args.bet_amount) # {}) =>
        /\ check_jackpot(rng, args.bet_amount).rng # rng
        /\ check_jackpot(rng, args.bet_amount).tier \in AdvertisedTiers(args.bet_amount) \cup {None}

\* A base-game spin with a bet of 1.0, the minimum /jackpot/info gives for every tier,
\* reaches the jackpot check, which reads nothing from the generator and returns no tier.
NoDrawAtAdvertisedBet ==
    /\ pc = "jackpot"
    /\ ~args.free_spin_mode
    /\ args.bet_amount = UnitBet
    /\ AdvertisedTiers(args.bet_amount) = DOMAIN JACKPOT_TIERS
    /\ check_jackpot(rng, args.bet_amount) = [tier |-> None, amount |-> 0, rng |-> rng]

\* C33: verify_spin accepts the payout multiplier of every result run_spin produced,
\* whatever the mode of the spin: called with the seeds, the nonce and the bet of the spin
\* and expected_payout = its payout_multiplier it returns is_valid = TRUE.
RoundTripValid ==
    (response.kind = "verify_spin" /\ caller.kind = "verify_spin" /\ memo # <<>>) =>
        response.is_valid

\* A winning base-game spin without boosts verified against its own payout: accepted, and
\* the result recomputed is the result of the spin.
BaseRoundTripAccepted ==
    /\ response.kind = "verify_spin"
    /\ memo # <<>>
    /\ ~memo[1].args.free_spin_mode
    /\ ~memo[1].args.scatter_boost
    /\ ~memo[1].args.wild_boost
    /\ memo[1].result.payout_multiplier > 0
    /\ response.result = memo[1].result
    /\ response.is_valid

\* A free spin on carried-over multipliers verified against its own payout: rejected,
\* since the base-game spin verify_spin runs pays less.
FreeSpinRoundTripRejected ==
    /\ response.kind = "verify_spin"
    /\ memo # <<>>
    /\ memo[1].args.free_spin_mode
    /\ memo[1].args.existing_multipliers # <<>>
    /\ response.result.payout_multiplier < memo[1].result.payout_multiplier
    /\ ~response.is_valid

\* A spin with a boost of the request verified against its own payout: rejected.
BoostedRoundTripRejected ==
    /\ response.kind = "verify_spin"
    /\ memo # <<>>
    /\ memo[1].args.scatter_boost \/ memo[1].args.wild_boost
    /\ ~response.is_valid

\* The multipliers an event of the log reports.
ReportedMultipliers(e) ==
    CASE e.type = "win" -> {e.multiplier}
      [] e.type = "wild_explosion" -> {e.maxNewMultiplier}
      [] e.type = "multiplier_upgrade" -> {e.value}
      [] OTHER -> {}

\* C34: max_multiplier of a result is the maximum multiplier observed during the spin: it is
\* at least every value of final_multipliers and every multiplier reported in a win,
\* wild_explosion or multiplier_upgrade event, also for a spin on a carry-over grid.
MaxMultiplierCoversSpin ==
    result.returned =>
        /\ \A c \in Cells : result.final_multipliers[c] <= result.max_multiplier
        /\ \A i \in 1..Len(result.events) :
               \A m \in ReportedMultipliers(result.events[i]) : m <= result.max_multiplier

\* A free spin on a carry-over grid without a win: max_multiplier is 1 and every cell of
\* final_multipliers is above it.
CarryOverAboveMaxMultiplier ==
    /\ result.returned
    /\ args.existing_multipliers # <<>>
    /\ result.tumble_count = 0
    /\ result.max_multiplier = INITIAL_MULTIPLIER
    /\ \A c \in Cells : result.final_multipliers[c] > result.max_multiplier

\* A spin from multipliers at 1 with iterations: max_multiplier is the largest value of
\* final_multipliers and of the events.
MaxMultiplierOfPlainSpin ==
    /\ result.returned
    /\ args.existing_multipliers = <<>>
    /\ result.tumble_count > 0
    /\ result.max_multiplier > INITIAL_MULTIPLIER
    /\ \E c \in Cells : result.final_multipliers[c] = result.max_multiplier
    /\ \A c \in Cells : result.final_multipliers[c] <= result.max_multiplier
    /\ \A i \in 1..Len(result.events) :
           \A m \in ReportedMultipliers(result.events[i]) : m <= result.max_multiplier

\* A play handler returns from its spin.
PlayReturns ==
    /\ pc = "done"
    /\ pc' = "idle"
    /\ HasWallet
    /\ caller.endpoint \in {"wallet_play", "play_legacy"}

\* The session between two requests.
AtRest == HasWallet /\ pc = "idle"

FreeSpinsNeverNegative == HasWallet => caller.session.free_spins_remaining >= 0

\* A spin played while free spins remain runs in free-spin mode on the session's count
\* and leaves the count at one less plus the award of the spin.
CountdownStep ==
    (PlayReturns /\ caller.session.free_spins_remaining > 0) =>
        /\ args.free_spin_mode
        /\ args.free_spins_remaining = caller.session.free_spins_remaining
        /\ caller'.session.free_spins_remaining =
               caller.session.free_spins_remaining - 1 + result.free_spins_triggered

\* The grid and the bet are cleared by the spin that brings the count to 0 and by no
\* other: after a free spin that leaves spins the grid is the final grid of the spin and
\* the bet is the stored one.
ClearedAtZero ==
    (PlayReturns /\ caller.locals.is_free_spin) =>
        IF caller'.session.free_spins_remaining = 0
        THEN /\ caller'.session.free_spin_multipliers = <<>>
             /\ caller'.session.free_spin_bet_amount = 0
        ELSE /\ caller'.session.free_spin_multipliers =
                    get_multiplier_grid(result.final_multipliers)
             /\ caller'.session.free_spin_bet_amount = caller.session.free_spin_bet_amount

\* Without free spins the session holds no grid and no bet, and a spin that is not a free
\* spin starts with every multiplier at 1.
NothingCarriedIntoBaseGame ==
    /\ (AtRest /\ caller.session.free_spins_remaining = 0) =>
           /\ caller.session.free_spin_multipliers = <<>>
           /\ caller.session.free_spin_bet_amount = 0
    /\ (HasWallet /\ pc = "reveal" /\ ~args.free_spin_mode) =>
           /\ args.existing_multipliers = <<>>
           /\ \A c \in Cells : multipliers[c] = INITIAL_MULTIPLIER

\* C35: across the play, bonus-buy and bonus-trigger calls of a session
\* free_spins_remaining is never negative; a spin played while it is positive runs in
\* free-spin mode and leaves it at its value minus one plus the retrigger award of the
\* spin; the carried grid and the stored bet are cleared exactly when it reaches 0, and
\* the next base-game spin starts with all multipliers at 1.
FreeSpinCountdown ==
    /\ []FreeSpinsNeverNegative
    /\ []NothingCarriedIntoBaseGame
    /\ [][CountdownStep /\ ClearedAtZero]_vars

\* The last free spin has been played: the count is 0, the grid and the bet are cleared.
FreeSpinCountdownWitness ==
    /\ AtRest
    /\ response.kind = "play_legacy"
    /\ response.isFreeSpin
    /\ response.freeSpinsRemaining = 0
    /\ caller.free_spins >= 7
    /\ caller.session.free_spins_remaining = 0
    /\ caller.session.free_spin_multipliers = <<>>
    /\ caller.session.free_spin_bet_amount = 0

\* A base-game spin after the free spins of the session have been played.
BaseSpinAfterFreeSpins ==
    /\ HasWallet
    /\ pc = "reveal"
    /\ ~args.free_spin_mode
    /\ caller.free_spins >= 7
    /\ caller.endpoint = "wallet_play"
    /\ \A c \in Cells : multipliers[c] = INITIAL_MULTIPLIER

\* A free spin that awards free spins again.
RetriggerCounted ==
    /\ AtRest
    /\ response.kind \in {"play_legacy", "wallet_play"}
    /\ result.returned
    /\ result.is_free_spin
    /\ result.free_spins_triggered > 0
    /\ caller.session.free_spins_remaining = result.free_spins_remaining

\* A request of a play endpoint while free spins remain: the spin it starts, or its refusal.
FreeSpinRequested ==
    /\ AtRest
    /\ caller.session.free_spins_remaining > 0
    /\ \/ pc' # "idle"
       \/ response' \in {StakeError("ERR_IPB", "wallet_play"), StakeError("ERR_IPB", "play_legacy")}

\* C36: a spin played while the session has free spins remaining costs nothing: the
\* balance is not debited, the spin is computed with the bet stored when the free spins
\* were awarded, and it is not refused because the balance is below the amount of the
\* request.
FreeSpinCostsNothing ==
    [][FreeSpinRequested =>
          /\ pc' # "idle"
          /\ caller'.session.balance = caller.session.balance
          /\ args'.free_spin_mode
          /\ args'.bet_amount = from_stake_amount(caller.session.free_spin_bet_amount)]_vars

\* wallet_play has refused a free spin: the balance is below the amount of the request.
FreeSpinRefused ==
    /\ AtRest
    /\ caller.session.free_spins_remaining > 0
    /\ response = StakeError("ERR_IPB", "wallet_play")
    /\ \E amount \in WalletAmounts : caller.session.balance < amount

\* play_legacy plays a free spin of a session without balance, on the stored bet.
FreeSpinPlayedWithoutBalance ==
    /\ HasWallet
    /\ pc = "reveal"
    /\ caller.endpoint = "play_legacy"
    /\ args.free_spin_mode
    /\ caller.session.balance = 0
    /\ args.bet_amount = from_stake_amount(caller.session.free_spin_bet_amount)
    /\ args.bet_amount # UnitBet

\* wallet_play plays a free spin of a session whose balance covers the amount.
WalletFreeSpinPlayed ==
    /\ HasWallet
    /\ pc = "reveal"
    /\ caller.endpoint = "wallet_play"
    /\ args.free_spin_mode
    /\ caller.session.balance > 0

BalanceNeverNegative == HasWallet => caller.session.balance >= 0

\* A request refused for its balance check.
RefusedForBalance ==
    /\ AtRest
    /\ pc' = "idle"
    /\ caller'.calls = caller.calls + 1
    /\ response'.kind = "error"
    /\ response'.code = "ERR_IPB"

\* C37: across the calls of a session (wallet/play, legacy play, bonus buy, bonus trigger
\* spin, boost activation) the balance is never negative: a debit is made only when the
\* balance covers it, and a call that fails the check leaves the balance, the nonce and
\* the free-spin state unchanged.
BalanceCoversEveryDebit ==
    /\ []BalanceNeverNegative
    /\ [][/\ (HasWallet /\ HasWallet' /\ caller'.session.balance < caller.session.balance) =>
                caller'.session.balance >= 0
          /\ RefusedForBalance =>
                /\ caller'.session = caller.session
                /\ caller'.rounds = caller.rounds
                /\ caller'.spins = caller.spins]_vars

\* wallet_play is refused on a session whose balance an activation has spent: the session is
\* as the activation left it.
BalanceCoversEveryDebitWitness ==
    /\ AtRest
    /\ response = StakeError("ERR_IPB", "wallet_play")
    /\ caller.session.balance = 0
    /\ caller.session.free_spins_remaining = 0
    /\ caller.session.nonce = 0
    /\ caller.session.wild_boost_spins > 0
    /\ caller.rounds = <<>>
    /\ caller.spins = <<>>

\* Each of the other endpoints has refused a request the balance does not cover.
LegacyPlayRefused == AtRest /\ response = StakeError("ERR_IPB", "play_legacy")
BonusBuyRefused == AtRest /\ response = StakeError("ERR_IPB", "buy_bonus")
TriggerSpinRefused == AtRest /\ response = StakeError("ERR_IPB", "bonus_trigger_spin")
BoostRefused == AtRest /\ response = StakeError("ERR_IPB", "activate_boost")

\* C38: the balance grows only through spin payouts: no bet placement, bonus purchase or
\* boost activation increases it, that is, every amount a request debits is at least 0.
RequestsNeverCredit ==
    [][(AtRest /\ HasWallet') => caller'.session.balance <= caller.session.balance]_vars

\* The balance is above the balance of a new session and no spin has been computed.
BalanceRaisedWithoutSpin ==
    /\ AtRest
    /\ caller.spins = <<>>
    /\ caller.session.balance > create_wallet_session(caller.session.server_seed).balance

\* play_legacy with a negative betAmount has raised the balance before its spin.
NegativeBetCredited ==
    /\ HasWallet
    /\ pc = "reveal"
    /\ caller.endpoint = "play_legacy"
    /\ args.bet_amount < 0
    /\ Len(caller.spins) = 1
    /\ caller.session.balance > create_wallet_session(caller.session.server_seed).balance

\* C39: within one session and one server seed no two spins are computed with the same
\* nonce: every spin uses the session's nonce and then increases it by exactly one, and
\* the nonce returns to 0 only when rotate-seed installs a new server seed.
NonceNeverReused ==
    /\ [](HasWallet =>
             \A i, j \in 1..Len(caller.spins) : i # j => caller.spins[i] # caller.spins[j])
    /\ [][(HasWallet /\ HasWallet') =>
             /\ caller'.spins # caller.spins =>
                    caller'.spins[Len(caller'.spins)] =
                        <<caller.session.server_seed, caller.session.nonce>>
             /\ IF caller'.session.server_seed # caller.session.server_seed
                THEN caller'.session.nonce = 0
                ELSE caller'.session.nonce \in
                         {caller.session.nonce, caller.session.nonce + 1}]_vars

\* Two spins of the session were computed with the same server seed and the same nonce.
NonceUsedTwice ==
    /\ HasWallet
    /\ \E i, j \in 1..Len(caller.spins) : i < j /\ caller.spins[i] = caller.spins[j]

\* Two spins have been computed without a rotation and the nonce of the session is 1.
NonceStandsStill ==
    /\ AtRest
    /\ caller.seeds = {caller.session.server_seed}
    /\ response.kind = "play_legacy"
    /\ Len(caller.spins) = 2
    /\ caller.session.nonce = 1

\* Spins of wallet_play, of a bonus purchase and of a trigger spin: each at the session's
\* nonce, which is one more afterwards.
NonceCounted ==
    /\ AtRest
    /\ Len(caller.spins) = 2
    /\ caller.spins[1][2] = 0
    /\ caller.spins[2][2] = 1
    /\ caller.session.nonce = 2

\* C40: at any time at most one round of a session is ACTIVE, and it is the round named
\* by active_round_id: a round becomes ACTIVE when wallet/play creates it and COMPLETED
\* when end-round is called, and no round stays ACTIVE when a new wallet/play is issued
\* before end-round.
OneActiveRound ==
    HasWallet =>
        \A i \in 1..Len(caller.rounds) :
            caller.rounds[i] = "ACTIVE" => caller.session.active_round_id = i

\* Two rounds are ACTIVE: the second wallet_play has replaced active_round_id, so that
\* end-round can no longer complete the first.
RoundLeftActive ==
    /\ AtRest
    /\ Len(caller.rounds) = 2
    /\ caller.rounds[1] = "ACTIVE"
    /\ caller.rounds[2] = "ACTIVE"
    /\ caller.session.active_round_id = 2

\* A round completed by end-round.
RoundCompleted ==
    /\ AtRest
    /\ caller.rounds = <<"COMPLETED">>
    /\ caller.session.active_round_id = 0

====
